--------------------------- MODULE EventStoreProofs ---------------------------
(***************************************************************************)
(* Whatever is crashed, torn, wiped, replayed or synced, by any number of  *)
(* processes: every variable keeps its type, the graph says nothing that   *)
(* was not first written to the file, and it parts from the log only for a *)
(* reason that `drift` knows.  With one process at work at a time, every   *)
(* command is one step of AtomicStore, the log is legal, `precedes` is     *)
(* acyclic, the reasons of a task agree with its state, and no id has two  *)
(* nodes.                                                                  *)
(***************************************************************************)
EXTENDS SerialStore, ProjectionProofs, SequenceTheorems

-----------------------------------------------------------------------------
(* The inductive invariant.  A writer that has appended still holds the    *)
(* events it will project, all of them written; a replayer holds numbers   *)
(* of lines that are in the file.                                          *)
Held ==
  \A w \in Writer :
    /\ pc[w] # "idle" => plan[w] # <<>>
    /\ pc[w] = "project" => \A k \in DOMAIN plan[w] : plan[w][k] \in Written

TodoInFile == replayer.todo \subseteq DOMAIN lines

IInv == TypeOK /\ GraphBackedByLog /\ Held /\ TodoInFile

(* What is in the file stays in it, with the same event on the same line.  *)
Grows ==
  /\ lines' \in Seq(Line)
  /\ DOMAIN lines \subseteq DOMAIN lines'
  /\ \A i \in DOMAIN lines : lines'[i].ev = lines[i].ev

LEMMA GluedLemma ==
  ASSUME TypeOK
  PROVE  /\ Glued(lines) \in Seq(Line) /\ Len(Glued(lines)) = Len(lines)
         /\ \A i \in DOMAIN lines : Glued(lines)[i].ev = lines[i].ev
<1>1. lines \in Seq(Line) /\ DOMAIN lines = 1..Len(lines) /\ Len(lines) \in Nat
  BY DEF TypeOK
<1>2. ASSUME NEW i \in DOMAIN lines
      PROVE  /\ lines[i] \in Line
             /\ Glued(lines)[i] = [ev |-> lines[i].ev,
                  ok |-> lines[i].ok /\ (i = Len(lines) => tail = "eol")]
  BY <1>1 DEF Glued
<1>3. ASSUME NEW i \in DOMAIN lines
      PROVE  Glued(lines)[i] \in Line /\ Glued(lines)[i].ev = lines[i].ev
  <2> DEFINE b == lines[i].ok /\ (i = Len(lines) => tail = "eol")
  <2>1. lines[i].ev \in Event /\ b \in BOOLEAN
    BY <1>2 DEF Line
  <2>2. Glued(lines)[i] = [ev |-> lines[i].ev, ok |-> b]
    BY <1>2
  <2> HIDE DEF b
  <2>3. QED
    BY <2>1, <2>2 DEF Line
<1>4. Glued(lines) = [i \in 1..Len(lines) |-> Glued(lines)[i]]
  BY <1>1 DEF Glued
<1>5. QED
  BY <1>1, <1>3, <1>4

(* Appending to the glued file. *)
LEMMA AppendGrows ==
  ASSUME TypeOK, NEW more \in Seq(Line), lines' = Glued(lines) \o more
  PROVE  /\ Grows
         /\ \A k \in DOMAIN more : \E i \in DOMAIN lines' : lines'[i].ev = more[k].ev
<1> DEFINE old == Glued(lines)
<1>1. old \in Seq(Line) /\ Len(old) = Len(lines) /\ lines \in Seq(Line)
  BY GluedLemma DEF TypeOK
<1>2. \A i \in DOMAIN lines : old[i].ev = lines[i].ev
  BY GluedLemma
<1> HIDE DEF old
<1>3. lines' = old \o more
  BY DEF old
<1>4. /\ old \o more \in Seq(Line) /\ Len(old \o more) = Len(old) + Len(more)
      /\ \A i \in 1..Len(old) : (old \o more)[i] = old[i]
      /\ \A k \in 1..Len(more) : (old \o more)[Len(old) + k] = more[k]
  <2>1. old \in Seq(Line) /\ more \in Seq(Line)
    BY <1>1
  <2>2. QED
    BY <2>1, ConcatProperties
<1>5. Grows
  BY <1>1, <1>2, <1>3, <1>4 DEF Grows
<1>6. ASSUME NEW k \in DOMAIN more
      PROVE  \E i \in DOMAIN lines' : lines'[i].ev = more[k].ev
  <2>1. k \in 1..Len(more) /\ Len(old) + k \in 1..(Len(old) + Len(more))
    BY <1>1
  <2>2. Len(old) + k \in DOMAIN lines' /\ lines'[Len(old) + k] = more[k]
    BY <1>3, <1>4, <2>1
  <2>3. QED
    BY <2>2
<1>7. QED
  BY <1>5, <1>6

(* A file that grows keeps backing what it backed. *)
LEMMA GrowsKeeps ==
  ASSUME TypeOK, Grows
  PROVE  Written \subseteq Written'
<1>1. SUFFICES ASSUME NEW i \in DOMAIN lines
               PROVE  lines[i].ev \in Written'
  BY DEF Written
<1>2. i \in DOMAIN lines' /\ lines'[i].ev = lines[i].ev
  BY DEF Grows
<1>3. QED
  BY <1>2 DEF Written

LEMMA WrittenAreEvents ==
  ASSUME TypeOK
  PROVE  Written \subseteq Event
<1>1. SUFFICES ASSUME NEW i \in DOMAIN lines
               PROVE  lines[i].ev \in Event
  BY DEF Written
<1>2. lines[i] \in Line
  BY DEF TypeOK
<1>3. QED
  BY <1>2 DEF Line

LEMMA InitInvariant == Init => IInv
<1> SUFFICES ASSUME Init PROVE IInv
  OBVIOUS
<1>2. EmptyGraph \in Graph /\ BackedBy(Written, EmptyGraph)
  BY EmptyIsBacked
<1>3. NoReplay \in Replayer
  BY DEF NoReplay, Replayer
<1>4. TypeOK
  <2>1. lines \in Seq(Line) /\ <<>> \in Seq(Event)
    BY DEF Init
  <2>2. plan \in [Writer -> Seq(Event)]
    BY <2>1 DEF Init
  <2>3. pc \in [Writer -> {"idle", "append", "project"}]
    BY DEF Init
  <2>4. QED
    BY <1>2, <1>3, <2>1, <2>2, <2>3 DEF Init, TypeOK, FileEnd
<1>5. Held /\ TodoInFile
  BY DEF Init, Held, TodoInFile, NoReplay
<1>6. GraphBackedByLog
  BY <1>2 DEF Init, GraphBackedByLog
<1>7. QED
  BY <1>4, <1>5, <1>6 DEF IInv

(* The lines a command writes, whole or torn, are lines. *)
LEMMA NewLinesLemma ==
  ASSUME NEW c \in Seq(Event)
  PROVE  /\ NewLines(c) \in Seq(Line)
         /\ DOMAIN NewLines(c) = DOMAIN c
         /\ \A k \in DOMAIN c : NewLines(c)[k].ev = c[k]
         /\ \A n \in DOMAIN c, end \in FileEnd : TornLines(c, n, end) \in Seq(Line)
<1>1. DOMAIN c = 1..Len(c) /\ Len(c) \in Nat /\ \A k \in DOMAIN c : c[k] \in Event
  OBVIOUS
<1>2. ASSUME NEW k \in DOMAIN c
      PROVE  NewLines(c)[k] \in Line /\ NewLines(c)[k].ev = c[k]
  <2> DEFINE b == k > 1 \/ tail = "eol"
  <2>1. b \in BOOLEAN /\ NewLines(c)[k] = [ev |-> c[k], ok |-> b]
    BY DEF NewLines
  <2> HIDE DEF b
  <2>2. QED
    BY <1>1, <2>1 DEF Line
<1>3. NewLines(c) = [k \in 1..Len(c) |-> NewLines(c)[k]]
  BY <1>1 DEF NewLines
<1>4. ASSUME NEW n \in DOMAIN c, NEW end \in FileEnd
      PROVE  TornLines(c, n, end) \in Seq(Line)
  <2>1. n \in Nat /\ 1..n \subseteq DOMAIN c
    BY <1>1
  <2>2. ASSUME NEW k \in 1..n
        PROVE  TornLines(c, n, end)[k] \in Line
    <3> DEFINE b == /\ k > 1 \/ tail = "eol"
                    /\ k = n => end # "cut"
    <3>1. b \in BOOLEAN /\ TornLines(c, n, end)[k] = [ev |-> c[k], ok |-> b]
      BY DEF TornLines
    <3> HIDE DEF b
    <3>2. c[k] \in Event
      BY <1>1, <2>1
    <3>3. QED
      BY <3>1, <3>2 DEF Line
  <2>3. TornLines(c, n, end) = [k \in 1..n |-> TornLines(c, n, end)[k]]
    BY DEF TornLines
  <2>4. QED
    BY <2>1, <2>2, <2>3
<1>5. QED
  BY <1>1, <1>2, <1>3, <1>4

-----------------------------------------------------------------------------
(* Every action preserves the invariant. *)
LEMMA PlanStep ==
  ASSUME IInv, NEW w \in Writer, Plan(w)
  PROVE  IInv'
<1> USE DEF Plan
<1>1. TypeOK /\ Held /\ TodoInFile /\ GraphBackedByLog
  BY DEF IInv
<1>2. PICK c \in Commands(graph, Artifact \ minted, w) :
        /\ plan' = [plan EXCEPT ![w] = c]
        /\ minted' = minted \cup Spent(c)
  OBVIOUS
<1>3. c \in Seq(Event) /\ c # <<>>
  <2>1. graph \in Graph /\ Artifact \ minted \in SUBSET Artifact /\ w \in Actor
    BY <1>1, EventStoreAssumption DEF TypeOK
  <2>2. QED
    BY <1>2, <2>1, CommandsAreSeqs
<1>4. minted' \subseteq Artifact
  <2>1. \A i \in DOMAIN c : c[i] \in Event
    BY <1>3
  <2>2. \A i \in DOMAIN c : c[i].a \in Artifact
    BY <2>1, EventFields
  <2>3. minted \subseteq Artifact
    BY <1>1 DEF TypeOK
  <2>4. QED
    BY <1>2, <2>2, <2>3 DEF Spent
<1>5. TypeOK'
  <2>1. /\ plan' \in [Writer -> Seq(Event)]
        /\ pc' \in [Writer -> {"idle", "append", "project"}]
    BY <1>1, <1>2, <1>3 DEF TypeOK
  <2>2. QED
    BY <1>1, <1>4, <2>1 DEF TypeOK
<1>6. Held'
  <2>1. ASSUME NEW v \in Writer
        PROVE  /\ pc'[v] # "idle" => plan'[v] # <<>>
               /\ pc'[v] = "project" => v # w /\ pc[v] = "project" /\ plan'[v] = plan[v]
    BY <1>1, <1>2, <1>3 DEF TypeOK, Held
  <2>2. Written' = Written
    BY DEF Written
  <2>3. QED
    BY <1>1, <2>1, <2>2 DEF Held
<1>7. TodoInFile' /\ GraphBackedByLog'
  BY <1>1 DEF TodoInFile, GraphBackedByLog, Written
<1>8. QED
  BY <1>5, <1>6, <1>7 DEF IInv

(* Whatever adds lines keeps what the rest of the invariant says of them.  *)
LEMMA GrowthStep ==
  ASSUME IInv, Grows, graph' = graph, replayer' = [replayer EXCEPT !.clean = FALSE]
  PROVE  /\ replayer' \in Replayer /\ TodoInFile' /\ GraphBackedByLog'
         /\ Written \subseteq Written'
<1>1. TypeOK /\ TodoInFile /\ GraphBackedByLog
  BY DEF IInv
<1>2. Written \subseteq Written'
  BY <1>1, GrowsKeeps
<1>3. GraphBackedByLog'
  <2>1. BackedBy(Written', graph)
    BY <1>1, <1>2, BackedByMore DEF GraphBackedByLog
  <2>2. QED
    BY <2>1 DEF GraphBackedByLog
<1>4. replayer' \in Replayer /\ replayer'.todo = replayer.todo
  BY <1>1 DEF TypeOK, Replayer
<1>5. TodoInFile'
  BY <1>1, <1>4 DEF TodoInFile, Grows
<1>6. QED
  BY <1>2, <1>3, <1>4, <1>5

LEMMA AppendStep ==
  ASSUME IInv, NEW w \in Writer, AppendEvents(w)
  PROVE  IInv'
<1> USE DEF AppendEvents
<1>1. TypeOK /\ Held
  BY DEF IInv
<1>2. plan[w] \in Seq(Event)
  BY <1>1 DEF TypeOK
<1>3. /\ NewLines(plan[w]) \in Seq(Line)
      /\ DOMAIN NewLines(plan[w]) = DOMAIN plan[w]
      /\ \A k \in DOMAIN plan[w] : NewLines(plan[w])[k].ev = plan[w][k]
  BY <1>2, NewLinesLemma
<1>4. /\ Grows
      /\ \A k \in DOMAIN plan[w] : \E i \in DOMAIN lines' : lines'[i].ev = plan[w][k]
  <2> DEFINE more == NewLines(plan[w])
  <2>1. more \in Seq(Line) /\ lines' = Glued(lines) \o more
    BY <1>3
  <2> HIDE DEF more
  <2>2. /\ Grows
        /\ \A k \in DOMAIN more : \E i \in DOMAIN lines' : lines'[i].ev = more[k].ev
    BY <1>1, <2>1, AppendGrows
  <2>3. ASSUME NEW k \in DOMAIN plan[w]
        PROVE  \E i \in DOMAIN lines' : lines'[i].ev = plan[w][k]
    <3>1. k \in DOMAIN more /\ more[k].ev = plan[w][k]
      BY <1>3 DEF more
    <3>2. QED
      BY <2>2, <3>1
  <2>4. QED
    BY <2>2, <2>3
<1>5. \A k \in DOMAIN plan[w] : plan[w][k] \in Written'
  BY <1>4 DEF Written
<1>6. /\ replayer' \in Replayer /\ TodoInFile' /\ GraphBackedByLog'
      /\ Written \subseteq Written'
  BY <1>4, GrowthStep
<1>7. TypeOK'
  <2>1. pc' \in [Writer -> {"idle", "append", "project"}] /\ drift' \in BOOLEAN
    BY <1>1 DEF TypeOK
  <2>2. QED
    BY <1>1, <1>4, <1>6, <2>1 DEF TypeOK, Grows, FileEnd
<1>8. Held'
  <2>1. ASSUME NEW v \in Writer
        PROVE  /\ pc'[v] # "idle" => plan[v] # <<>>
               /\ pc'[v] = "project" => v = w \/ pc[v] = "project"
    BY <1>1 DEF TypeOK, Held
  <2>2. QED
    BY <1>1, <1>5, <1>6, <2>1 DEF Held
<1>9. QED
  BY <1>6, <1>7, <1>8 DEF IInv

LEMMA TornStep ==
  ASSUME IInv, NEW w \in Writer, TornAppend(w)
  PROVE  IInv'
<1> USE DEF TornAppend
<1>1. TypeOK /\ Held
  BY DEF IInv
<1>2. PICK n \in DOMAIN plan[w], end \in FileEnd :
        /\ lines' = Glued(lines) \o TornLines(plan[w], n, end)
        /\ tail' = end
  OBVIOUS
<1>3. TornLines(plan[w], n, end) \in Seq(Line)
  <2>1. plan[w] \in Seq(Event)
    BY <1>1 DEF TypeOK
  <2>2. QED
    BY <2>1, NewLinesLemma
<1>4. Grows
  BY <1>1, <1>2, <1>3, AppendGrows
<1>5. /\ replayer' \in Replayer /\ TodoInFile' /\ GraphBackedByLog'
      /\ Written \subseteq Written'
  BY <1>4, GrowthStep
<1>6. TypeOK'
  <2>1. /\ pc' \in [Writer -> {"idle", "append", "project"}]
        /\ plan' \in [Writer -> Seq(Event)]
    BY <1>1 DEF TypeOK
  <2>2. QED
    BY <1>1, <1>2, <1>4, <1>5, <2>1 DEF TypeOK, Grows
<1>7. Held'
  <2>1. ASSUME NEW v \in Writer
        PROVE  pc'[v] # "idle" => pc'[v] = pc[v] /\ plan'[v] = plan[v]
    BY <1>1 DEF TypeOK
  <2>2. QED
    BY <1>1, <1>5, <2>1 DEF Held
<1>8. QED
  BY <1>5, <1>6, <1>7 DEF IInv

LEMMA ProjectStep ==
  ASSUME IInv, NEW w \in Writer, ProjectOne(w)
  PROVE  IInv'
<1> USE DEF ProjectOne
<1>1. TypeOK /\ Held /\ TodoInFile /\ GraphBackedByLog
  BY DEF IInv
<1>2. plan[w] \in Seq(Event) /\ plan[w] # <<>> /\ graph \in Graph
  BY <1>1 DEF TypeOK, Held
<1>3. Head(plan[w]) = plan[w][1] /\ 1 \in DOMAIN plan[w]
  BY <1>2
<1>4. Head(plan[w]) \in Written /\ Written \subseteq Event
  BY <1>1, <1>3, WrittenAreEvents DEF Held
<1>5. graph' \in Graph /\ BackedBy(Written, graph')
  BY <1>1, <1>2, <1>4, ApplyIsGraph, ApplyIsBacked DEF GraphBackedByLog
<1>6. Written' = Written
  BY DEF Written
<1>7. /\ Tail(plan[w]) \in Seq(Event)
      /\ Len(plan[w]) # 1 => Tail(plan[w]) # <<>>
      /\ \A k \in DOMAIN Tail(plan[w]) :
           k + 1 \in DOMAIN plan[w] /\ Tail(plan[w])[k] = plan[w][k + 1]
  <2>1. /\ Tail(plan[w]) \in Seq(Event) /\ Len(Tail(plan[w])) = Len(plan[w]) - 1
        /\ \A k \in 1..Len(Tail(plan[w])) : Tail(plan[w])[k] = plan[w][k + 1]
    BY <1>2, HeadTailProperties
  <2>2. Len(plan[w]) \in Nat /\ DOMAIN plan[w] = 1..Len(plan[w])
    BY <1>2
  <2>3. DOMAIN Tail(plan[w]) = 1..Len(Tail(plan[w]))
    BY <2>1
  <2>4. Len(plan[w]) # 1 => Tail(plan[w]) # <<>>
    <3>1. Len(<<>>) = 0
      OBVIOUS
    <3>2. Tail(plan[w]) = <<>> => Len(plan[w]) - 1 = 0
      BY <2>1, <3>1
    <3>3. QED
      BY <2>2, <3>2
  <2>5. \A k \in DOMAIN Tail(plan[w]) : k + 1 \in DOMAIN plan[w]
    BY <2>1, <2>2, <2>3
  <2>6. QED
    BY <2>1, <2>3, <2>4, <2>5
<1>8. TypeOK'
  <2>1. /\ pc' \in [Writer -> {"idle", "append", "project"}]
        /\ plan' \in [Writer -> Seq(Event)]
    BY <1>1, <1>7 DEF TypeOK
  <2>2. QED
    BY <1>1, <1>5, <2>1 DEF TypeOK
<1>9. Held'
  <2>1. ASSUME NEW v \in Writer, v # w
        PROVE  pc'[v] = pc[v] /\ plan'[v] = plan[v]
    BY <1>1, <2>1 DEF TypeOK
  <2>2. plan'[w] = Tail(plan[w]) /\ (pc'[w] # "idle" => Len(plan[w]) # 1)
    BY <1>1 DEF TypeOK
  <2>3. \A k \in DOMAIN Tail(plan[w]) : Tail(plan[w])[k] \in Written
    BY <1>1, <1>7 DEF Held
  <2>4. QED
    BY <1>1, <1>6, <1>7, <2>1, <2>2, <2>3 DEF Held
<1>10. TodoInFile' /\ GraphBackedByLog'
  BY <1>1, <1>5, <1>6 DEF TodoInFile, GraphBackedByLog
<1>11. QED
  BY <1>8, <1>9, <1>10 DEF IInv

LEMMA CrashStep ==
  ASSUME IInv, NEW w \in Writer, Crash(w)
  PROVE  IInv'
<1> USE DEF Crash
<1>1. TypeOK /\ Held /\ TodoInFile /\ GraphBackedByLog
  BY DEF IInv
<1>2. TypeOK'
  <2>1. /\ pc' \in [Writer -> {"idle", "append", "project"}]
        /\ plan' \in [Writer -> Seq(Event)]
    BY <1>1 DEF TypeOK
  <2>2. drift' \in BOOLEAN /\ crashes' \in Nat
    BY <1>1 DEF TypeOK
  <2>3. QED
    BY <1>1, <2>1, <2>2 DEF TypeOK
<1>3. Written' = Written
  BY DEF Written
<1>4. Held'
  <2>1. ASSUME NEW v \in Writer
        PROVE  pc'[v] # "idle" => pc'[v] = pc[v] /\ plan'[v] = plan[v]
    BY <1>1 DEF TypeOK
  <2>2. QED
    BY <1>1, <1>3, <2>1 DEF Held
<1>5. TodoInFile' /\ GraphBackedByLog'
  BY <1>1, <1>3 DEF TodoInFile, GraphBackedByLog
<1>6. QED
  BY <1>2, <1>4, <1>5 DEF IInv

(* A replay reads numbers of lines that are in the file. *)
LEMMA ReadIsReplayer ==
  ASSUME TypeOK, NEW k \in Nat, NEW mode \in {"wipe", "apply"},
         NEW full \in BOOLEAN, Read(k, mode, full)
  PROVE  replayer' \in Replayer /\ replayer'.todo \subseteq DOMAIN lines
<1>1. lines \in Seq(Line) /\ DOMAIN lines \subseteq Nat
  BY DEF TypeOK
<1>2. ReadableAfter(k) \subseteq DOMAIN lines
  BY DEF ReadableAfter, Readable
<1> DEFINE quiet == Projecting = {}
<1>3. PICK last \in ReadableAfter(k) :
        replayer' = [mode |-> mode, todo |-> ReadableAfter(k), last |-> last,
                     full |-> full, clean |-> quiet]
  BY DEF Read
<1>4. quiet \in BOOLEAN
  OBVIOUS
<1> HIDE DEF quiet
<1>5. QED
  BY <1>1, <1>2, <1>3, <1>4 DEF Replayer

LEMMA ReplayStep ==
  ASSUME IInv, StartReplay \/ Wipe \/ StartSync \/ ApplyNext
                 \/ FinishReplay \/ CrashReplay
  PROVE  IInv'
<1>1. TypeOK /\ Held /\ TodoInFile /\ GraphBackedByLog
  BY DEF IInv
<1>2. NoReplay \in Replayer
  BY DEF NoReplay, Replayer
<1>3. CASE StartReplay \/ StartSync
  <2>1. replayer' \in Replayer /\ replayer'.todo \subseteq DOMAIN lines
    <3>1. CASE StartReplay
      BY <1>1, <3>1, ReadIsReplayer DEF StartReplay
    <3>2. CASE StartSync
      BY <1>1, <3>2, ReadIsReplayer DEF StartSync, TypeOK
    <3>3. QED
      BY <1>3, <3>1, <3>2
  <2>2. /\ replays' \in Nat
        /\ UNCHANGED <<lines, tail, graph, synced, pc, plan, minted, drift,
                       crashes, torn>>
    <3>1. CASE StartReplay
      BY <1>1, <3>1 DEF StartReplay, TypeOK
    <3>2. CASE StartSync
      BY <1>1, <3>2 DEF StartSync, TypeOK
    <3>3. QED
      BY <1>3, <3>1, <3>2
  <2>3. QED
    BY <1>1, <2>1, <2>2
    DEF IInv, TypeOK, Held, TodoInFile, GraphBackedByLog, Written
<1>4. CASE Wipe
  <2>1. graph' \in Graph /\ BackedBy(Written, graph')
    BY <1>4, EmptyIsBacked DEF Wipe
  <2>2. replayer' \in Replayer /\ replayer'.todo = replayer.todo
    BY <1>1, <1>4 DEF Wipe, TypeOK, Replayer
  <2>3. QED
    BY <1>1, <1>4, <2>1, <2>2
    DEF Wipe, IInv, TypeOK, Held, TodoInFile, GraphBackedByLog, Written
<1>5. CASE ApplyNext
  <2>1. PICK i \in replayer.todo :
          /\ graph' = ApplyEvent(graph, lines[i].ev)
          /\ replayer' = [replayer EXCEPT !.todo = @ \ {i}]
    BY <1>5 DEF ApplyNext
  <2>2. lines[i].ev \in Written /\ Written \subseteq Event
    BY <1>1, WrittenAreEvents DEF TodoInFile, Written
  <2>3. graph' \in Graph /\ BackedBy(Written, graph')
    BY <1>1, <2>1, <2>2, ApplyIsGraph, ApplyIsBacked DEF TypeOK, GraphBackedByLog
  <2>4. replayer' \in Replayer /\ replayer'.todo \subseteq replayer.todo
    BY <1>1, <2>1 DEF TypeOK, Replayer
  <2>5. QED
    BY <1>1, <1>5, <2>3, <2>4
    DEF ApplyNext, IInv, TypeOK, Held, TodoInFile, GraphBackedByLog, Written
<1>6. CASE FinishReplay
  <2>1. synced' \in Nat /\ drift' \in BOOLEAN /\ replayer' = NoReplay
    BY <1>1, <1>6 DEF FinishReplay, TypeOK, Replayer
  <2>2. QED
    BY <1>1, <1>2, <1>6, <2>1
    DEF FinishReplay, IInv, TypeOK, Held, TodoInFile, GraphBackedByLog, Written,
        NoReplay
<1>7. CASE CrashReplay
  <2>1. drift' \in BOOLEAN /\ crashes' \in Nat /\ replayer' = NoReplay
    BY <1>1, <1>7 DEF CrashReplay, TypeOK
  <2>2. QED
    BY <1>1, <1>2, <1>7, <2>1
    DEF CrashReplay, IInv, TypeOK, Held, TodoInFile, GraphBackedByLog, Written,
        NoReplay
<1>8. QED
  BY <1>3, <1>4, <1>5, <1>6, <1>7

LEMMA NextInvariant == IInv /\ [Next]_vars => IInv'
<1> SUFFICES ASSUME IInv, [Next]_vars PROVE IInv'
  OBVIOUS
<1>1. ASSUME NEW w \in Writer, Plan(w) PROVE IInv'
  BY <1>1, PlanStep
<1>2. ASSUME NEW w \in Writer, AppendEvents(w) PROVE IInv'
  BY <1>2, AppendStep
<1>3. ASSUME NEW w \in Writer, ProjectOne(w) PROVE IInv'
  BY <1>3, ProjectStep
<1>4. ASSUME NEW w \in Writer, Crash(w) PROVE IInv'
  BY <1>4, CrashStep
<1>5. ASSUME NEW w \in Writer, TornAppend(w) PROVE IInv'
  BY <1>5, TornStep
<1>6. CASE StartReplay \/ Wipe \/ StartSync \/ ApplyNext \/ FinishReplay \/ CrashReplay
  BY <1>6, ReplayStep
<1>7. CASE UNCHANGED vars
  BY <1>7
  DEF vars, IInv, TypeOK, Held, TodoInFile, GraphBackedByLog, Written
<1>8. QED
  BY <1>1, <1>2, <1>3, <1>4, <1>5, <1>6, <1>7 DEF Next

(* The inductive invariant holds of every behaviour of the store. *)
THEOREM InvariantHolds == Spec => []IInv
<1>1. QED
  BY InitInvariant, NextInvariant, PTL DEF Spec

(* Every variable of the ledger and its projection keeps its type.         *)
THEOREM TypeCorrect == Spec => []TypeOK
<1>1. IInv => TypeOK
  BY DEF IInv
<1>2. QED
  BY <1>1, InvariantHolds, PTL

(* Nothing reaches the graph that was not first written to the file, by    *)
(* any number of commands, crashes, torn writes, rebuilds and syncs        *)
(* (core/artifacts.py:commit_writes, core/sync.py:full_replay).            *)
THEOREM NothingUnlogged == Spec => []GraphBackedByLog
<1>1. IInv => GraphBackedByLog
  BY DEF IInv
<1>2. QED
  BY <1>1, InvariantHolds, PTL

-----------------------------------------------------------------------------
(***************************************************************************)
(* What a replay of the log builds, line by line: ReadTo keeps the events  *)
(* of the lines that parse, and applying them one by one is applying the   *)
(* file line by line.                                                      *)
(***************************************************************************)
Reads(f, file, m) ==
  f = [i \in 0..m |-> IF i = 0 THEN <<>>
                      ELSE IF file[i].ok THEN Append(f[i - 1], file[i].ev) ELSE f[i - 1]]

LEMMA ReadingIsDefined ==
  ASSUME NEW file \in Seq(Line), NEW m \in 0..Len(file)
  PROVE  \E f : Reads(f, file, m)
<1> DEFINE D == Seq(Event)
           step == [x \in D \X (1..m) |-> IF file[x[2]].ok THEN Append(x[1], file[x[2]].ev)
                                          ELSE x[1]]
<1>1. m \in Nat /\ <<>> \in D
  OBVIOUS
<1>2. \A i \in 1..m : file[i].ev \in Event
  <2>1. \A i \in 1..m : file[i] \in Line
    OBVIOUS
  <2> QED
    BY <2>1 DEF Line
<1>3. step \in [D \X (1..m) -> D]
  <2>1. \A x \in D \X (1..m) : x[1] \in D /\ file[x[2]].ev \in Event
    BY <1>2
  <2> QED
    BY <2>1
<1>4. PICK f \in [0..m -> D] : Iterates(f, <<>>, step, m)
  <2> HIDE DEF D, step
  <2> QED
    BY <1>1, <1>3, IterationExists
<1>5. ASSUME NEW i \in 0..m, i # 0
      PROVE  f[i] = IF file[i].ok THEN Append(f[i - 1], file[i].ev) ELSE f[i - 1]
  <2>1. i \in 1..m /\ i - 1 \in 0..m
    BY <1>5
  <2>2. <<f[i - 1], i>> \in D \X (1..m)
    BY <2>1
  <2>3. f[i] = step[<<f[i - 1], i>>]
    BY <1>4, <2>1 DEF Iterates
  <2> HIDE DEF D
  <2> QED
    BY <2>2, <2>3
<1>6. f[0] = <<>>
  BY <1>4 DEF Iterates
<1> DEFINE h == [i \in 0..m |-> IF i = 0 THEN <<>>
                                ELSE IF file[i].ok THEN Append(f[i - 1], file[i].ev)
                                ELSE f[i - 1]]
<1>7. f = [i \in 0..m |-> f[i]] /\ \A i \in 0..m : f[i] = h[i]
  <2> HIDE DEF D
  <2> QED
    BY <1>5, <1>6
<1>8. f = h
  <2> HIDE DEF D
  <2> QED
    BY <1>7
<1> QED
  BY <1>8, Zenon DEF Reads

LEMMA ReadingRounds ==
  ASSUME NEW file, NEW m \in Nat, NEW f, Reads(f, file, m)
  PROVE  /\ f[0] = <<>>
         /\ \A i \in 1..m :
              f[i] = IF file[i].ok THEN Append(f[i - 1], file[i].ev) ELSE f[i - 1]
<1>1. \A i \in 0..m :
        f[i] = IF i = 0 THEN <<>>
               ELSE IF file[i].ok THEN Append(f[i - 1], file[i].ev) ELSE f[i - 1]
  BY Zenon DEF Reads
<1> QED
  BY <1>1

(* One reading of the file shows what ReadTo is at every line. *)
LEMMA ReadToReads ==
  ASSUME NEW file \in Seq(Line), NEW m \in 0..Len(file), NEW f, Reads(f, file, m)
  PROVE  f[m] = ReadTo(file, m)
<1> DEFINE h == CHOOSE read : Reads(read, file, m)
<1>1. Reads(h, file, m)
  BY Zenon
<1>2. ReadTo(file, m) = h[m]
  BY Zenon DEF ReadTo, Reads
<1> HIDE DEF h
<1>3. m \in Nat
  OBVIOUS
<1>4. Alike(f, h, m)
  BY <1>1, <1>3, ReadingRounds DEF Alike
<1>5. \A i \in 0..m : f[i] = h[i]
  BY <1>3, <1>4, SameSteps
<1> QED
  BY <1>2, <1>3, <1>5

LEMMA ReadToSteps ==
  ASSUME NEW file \in Seq(Line)
  PROVE  /\ ReadTo(file, 0) = <<>>
         /\ \A k \in 1..Len(file) :
              ReadTo(file, k) = IF file[k].ok THEN Append(ReadTo(file, k - 1), file[k].ev)
                                ELSE ReadTo(file, k - 1)
<1>0. Len(file) \in Nat /\ 0 \in 0..Len(file)
  OBVIOUS
<1>1. ReadTo(file, 0) = <<>>
  <2>1. PICK f : Reads(f, file, 0)
    BY <1>0, ReadingIsDefined
  <2> QED
    BY <1>0, <2>1, ReadToReads, ReadingRounds
<1>2. ASSUME NEW k \in 1..Len(file)
      PROVE  ReadTo(file, k) = IF file[k].ok THEN Append(ReadTo(file, k - 1), file[k].ev)
                               ELSE ReadTo(file, k - 1)
  <2>1. k \in Nat /\ k \in 0..Len(file) /\ k - 1 \in 0..Len(file) /\ k - 1 \in Nat /\ k \in 1..k
    BY <1>0
  <2>2. PICK f : Reads(f, file, k)
    BY <2>1, ReadingIsDefined
  <2>3. PICK h : Reads(h, file, k - 1)
    BY <2>1, ReadingIsDefined
  <2>4. /\ f[0] = <<>>
        /\ \A i \in 1..k :
             f[i] = IF file[i].ok THEN Append(f[i - 1], file[i].ev) ELSE f[i - 1]
    BY <2>1, <2>2, ReadingRounds
  <2>5. /\ h[0] = <<>>
        /\ \A i \in 1..(k - 1) :
             h[i] = IF file[i].ok THEN Append(h[i - 1], file[i].ev) ELSE h[i - 1]
    BY <2>1, <2>3, ReadingRounds
  <2>6. f[k - 1] = h[k - 1]
    <3>1. \A i \in 1..(k - 1) : i \in 1..k
      BY <2>1
    <3>2. f[0] = h[0] /\ \A i \in 1..(k - 1) : f[i - 1] = h[i - 1] => f[i] = h[i]
      BY <2>4, <2>5, <3>1
    <3>3. \A i \in 0..(k - 1) : f[i] = h[i]
      <4> DEFINE j == k - 1
      <4>1. j \in Nat
        BY <2>1
      <4>2. Alike(f, h, j)
        BY <3>2 DEF Alike
      <4> HIDE DEF j
      <4>3. \A i \in 0..j : f[i] = h[i]
        BY <4>1, <4>2, SameSteps
      <4> QED
        BY <4>3 DEF j
    <3> QED
      BY <2>1, <3>3
  <2>7. f[k] = ReadTo(file, k) /\ h[k - 1] = ReadTo(file, k - 1)
    BY <2>1, <2>2, <2>3, ReadToReads
  <2> QED
    BY <2>1, <2>4, <2>6, <2>7
<1> QED
  BY <1>1, <1>2

LEMMA ReadToIsEvents ==
  ASSUME NEW file \in Seq(Line)
  PROVE  \A k \in 0..Len(file) : ReadTo(file, k) \in Seq(Event)
<1> DEFINE m == Len(file)
           S == {k \in 0..m : ReadTo(file, k) \in Seq(Event)}
<1>1. m \in Nat /\ 0 \in S
  <2>1. ReadTo(file, 0) = <<>> /\ <<>> \in Seq(Event)
    BY ReadToSteps
  <2>2. ReadTo(file, 0) \in Seq(Event)
    BY <2>1, Zenon
  <2>3. m \in Nat /\ 0 \in 0..m
    OBVIOUS
  <2> QED
    BY <2>2, <2>3
<1>2. ASSUME NEW n \in 0..m, n \in S, n # m PROVE n + 1 \in S
  <2>1. n + 1 \in 1..m /\ (n + 1) - 1 = n /\ ReadTo(file, n) \in Seq(Event)
    BY <1>2
  <2>2. file[n + 1] \in Line
    BY <2>1
  <2>3. file[n + 1].ev \in Event
    BY <2>2 DEF Line
  <2>4. \A k \in 1..m :
          ReadTo(file, k) = IF file[k].ok THEN Append(ReadTo(file, k - 1), file[k].ev)
                            ELSE ReadTo(file, k - 1)
    BY ReadToSteps
  <2>5. ReadTo(file, n + 1) = IF file[n + 1].ok THEN Append(ReadTo(file, n), file[n + 1].ev)
                              ELSE ReadTo(file, n)
    BY <2>1, <2>4
  <2>6. ReadTo(file, n + 1) \in Seq(Event)
    <3>1. Append(ReadTo(file, n), file[n + 1].ev) \in Seq(Event)
      BY <2>1, <2>3
    <3> QED
      BY <2>1, <2>5, <3>1
  <2> QED
    BY <2>1, <2>6
<1>3. \A k \in 0..m : k \in S
  <2>1. \A n \in 0..m : n \in S /\ n # m => n + 1 \in S
    BY <1>2
  <2> HIDE DEF S, m
  <2> QED
    BY <1>1, <2>1, UpTo
<1> QED
  BY <1>3

(* The graph a replay has built when it has come to a line. *)
Rebuilt(file, k) == Replay(ReadTo(file, k))

LEMMA RebuiltSteps ==
  ASSUME NEW file \in Seq(Line)
  PROVE  /\ Rebuilt(file, 0) = EmptyGraph
         /\ \A k \in 1..Len(file) :
              Rebuilt(file, k) = IF file[k].ok THEN ApplyEvent(Rebuilt(file, k - 1), file[k].ev)
                                 ELSE Rebuilt(file, k - 1)
<1>1. Rebuilt(file, 0) = EmptyGraph
  BY ReadToSteps, ApplyNothing DEF Rebuilt, Replay
<1>2. ASSUME NEW k \in 1..Len(file)
      PROVE  Rebuilt(file, k) = IF file[k].ok
                                THEN ApplyEvent(Rebuilt(file, k - 1), file[k].ev)
                                ELSE Rebuilt(file, k - 1)
  <2>1. ReadTo(file, k) = IF file[k].ok THEN Append(ReadTo(file, k - 1), file[k].ev)
                          ELSE ReadTo(file, k - 1)
    BY ReadToSteps
  <2>2. k - 1 \in 0..Len(file) /\ file[k] \in Line
    OBVIOUS
  <2>3. ReadTo(file, k - 1) \in Seq(Event) /\ file[k].ev \in Event
    BY <2>2, ReadToIsEvents DEF Line
  <2>4. ApplyAll(EmptyGraph, Append(ReadTo(file, k - 1), file[k].ev))
          = ApplyEvent(ApplyAll(EmptyGraph, ReadTo(file, k - 1)), file[k].ev)
    BY <2>3, ApplyOneMore
  <2> QED
    BY <2>1, <2>4 DEF Rebuilt, Replay
<1> QED
  BY <1>1, <1>2

(* Lines that do not parse change nothing. *)
LEMMA RebuiltSkips ==
  ASSUME NEW file \in Seq(Line), NEW k \in 0..Len(file), NEW m \in k..Len(file),
         \A i \in (k + 1)..m : ~file[i].ok
  PROVE  Rebuilt(file, m) = Rebuilt(file, k)
<1> DEFINE S == {i \in 0..m : i < k \/ Rebuilt(file, i) = Rebuilt(file, k)}
<1>1. k \in Nat /\ m \in Nat /\ k <= m /\ Len(file) \in Nat /\ m <= Len(file)
  OBVIOUS
<1>2. 0 \in S
  BY <1>1
<1>3. ASSUME NEW n \in 0..m, n \in S, n # m PROVE n + 1 \in S
  <2>1. n + 1 \in 1..Len(file) /\ n + 1 \in 0..m /\ (n + 1) - 1 = n
    BY <1>1, <1>3
  <2>2. CASE n + 1 <= k
    BY <1>1, <2>1, <2>2
  <2>3. CASE n + 1 > k
    <3>1. Rebuilt(file, n) = Rebuilt(file, k) /\ n + 1 \in (k + 1)..m
      BY <1>1, <1>3, <2>1, <2>3
    <3>2. \A j \in 1..Len(file) :
            Rebuilt(file, j) = IF file[j].ok THEN ApplyEvent(Rebuilt(file, j - 1), file[j].ev)
                               ELSE Rebuilt(file, j - 1)
      BY RebuiltSteps
    <3>3. Rebuilt(file, n + 1) = Rebuilt(file, n)
      BY <2>1, <3>1, <3>2
    <3> QED
      BY <2>1, <3>1, <3>3
  <2> QED
    BY <1>1, <2>1, <2>2, <2>3
<1>4. m \in S
  <2>1. \A n \in 0..m : n \in S /\ n # m => n + 1 \in S
    BY <1>3
  <2> HIDE DEF S
  <2>2. \A n \in 0..m : n \in S
    BY <1>1, <1>2, <2>1, UpTo
  <2> QED
    BY <1>1, <2>2
<1> QED
  BY <1>1, <1>4

(* What is appended whole is applied to what was built before. *)
LEMMA RebuiltGrows ==
  ASSUME NEW file \in Seq(Line), NEW events \in Seq(Event), NEW more \in Seq(Line),
         Len(more) = Len(file) + Len(events),
         \A i \in 1..Len(file) : more[i] = file[i],
         \A i \in 1..Len(events) :
           more[Len(file) + i].ok /\ more[Len(file) + i].ev = events[i]
  PROVE  Rebuilt(more, Len(more)) = ApplyAll(Rebuilt(file, Len(file)), events)
<1> DEFINE m == Len(file)
           n == Len(events)
<1>1. m \in Nat /\ n \in Nat /\ Len(more) = m + n
  OBVIOUS
<1>2. \A k \in 1..m :
        Rebuilt(file, k) = IF file[k].ok THEN ApplyEvent(Rebuilt(file, k - 1), file[k].ev)
                           ELSE Rebuilt(file, k - 1)
  BY RebuiltSteps
<1>3. \A k \in 1..(m + n) :
        Rebuilt(more, k) = IF more[k].ok THEN ApplyEvent(Rebuilt(more, k - 1), more[k].ev)
                           ELSE Rebuilt(more, k - 1)
  BY <1>1, RebuiltSteps
<1>4. Rebuilt(file, 0) = Rebuilt(more, 0)
  BY RebuiltSteps
<1>5. Rebuilt(more, m) = Rebuilt(file, m)
  <2> DEFINE f == [k \in 0..m |-> Rebuilt(file, k)]
             h == [k \in 0..m |-> Rebuilt(more, k)]
  <2>1. f[0] = h[0]
    BY <1>1, <1>4
  <2>2. ASSUME NEW k \in 1..m, f[k - 1] = h[k - 1] PROVE f[k] = h[k]
    <3>1. k \in 0..m /\ k - 1 \in 0..m /\ k \in 1..(m + n) /\ more[k] = file[k]
      BY <1>1
    <3>2. Rebuilt(file, k - 1) = Rebuilt(more, k - 1)
      BY <2>2, <3>1
    <3>3. Rebuilt(file, k) = IF file[k].ok THEN ApplyEvent(Rebuilt(file, k - 1), file[k].ev)
                             ELSE Rebuilt(file, k - 1)
      BY <1>2
    <3>4. Rebuilt(more, k) = IF more[k].ok THEN ApplyEvent(Rebuilt(more, k - 1), more[k].ev)
                             ELSE Rebuilt(more, k - 1)
      BY <1>3, <3>1
    <3>5. Rebuilt(file, k) = Rebuilt(more, k)
      BY <3>1, <3>2, <3>3, <3>4
    <3> QED
      BY <3>1, <3>5
  <2>3. \A k \in 0..m : f[k] = h[k]
    <3>1. \A k \in 1..m : f[k - 1] = h[k - 1] => f[k] = h[k]
      BY <2>2
    <3> HIDE DEF f, h, m
    <3>2. Alike(f, h, m)
      BY <2>1, <3>1 DEF Alike
    <3> QED
      BY <1>1, <3>2, SameSteps
  <2> QED
    BY <1>1, <2>3
<1> DEFINE h == [k \in 0..n |-> Rebuilt(more, m + k)]
<1>6. h[0] = Rebuilt(file, m)
  BY <1>1, <1>5
<1>7. ASSUME NEW k \in 1..n PROVE h[k] = ApplyEvent(h[k - 1], events[k])
  <2>1. /\ k \in 0..n /\ k - 1 \in 0..n /\ m + k \in 1..(m + n)
        /\ (m + k) - 1 = m + (k - 1)
    BY <1>1
  <2>2. Rebuilt(more, m + k) = ApplyEvent(Rebuilt(more, (m + k) - 1), more[m + k].ev)
    BY <1>3, <2>1
  <2> QED
    BY <2>1, <2>2
<1>8. h[n] = Rebuilt(more, m + n)
  BY <1>1
<1> HIDE DEF h
<1>9. h[n] = ApplyAll(Rebuilt(file, m), events)
  <2> DEFINE start == Rebuilt(file, m)
  <2>1. /\ h[0] = start /\ Len(events) \in Nat
        /\ \A k \in 1..Len(events) : h[k] = ApplyEvent(h[k - 1], events[k])
    BY <1>1, <1>6, <1>7
  <2> HIDE DEF start
  <2>2. h[Len(events)] = ApplyAll(start, events)
    BY <2>1, RunsAreApplyAll
  <2> QED
    BY <2>2 DEF start
<1> QED
  BY <1>1, <1>8, <1>9

-----------------------------------------------------------------------------
(***************************************************************************)
(* DriftNeedsACause speaks of moments when nobody projects or replays.  In *)
(* between, with nothing that parts the graph from the log: the one writer *)
(* that projects has yet to apply what is missing (Faithful), and a replay *)
(* of the whole log that nothing wrote beside has built the graph of the   *)
(* lines it has come to (Rebuilding).                                      *)
(***************************************************************************)
Faithful ==
  ~drift /\ replayer.mode # "apply" =>
    \/ Projecting = {} /\ graph = Rebuilt(lines, Len(lines))
    \/ \E w \in Writer : /\ Projecting = {w}
                         /\ ApplyAll(graph, plan[w]) = Rebuilt(lines, Len(lines))

CleanIsQuiet == replayer.clean => Projecting = {}

Rebuilding ==
  replayer.full /\ replayer.clean =>
    /\ replayer.mode = "wipe" => replayer.todo = Readable
    /\ replayer.mode = "apply" =>
         \E k \in 0..Len(lines) :
           replayer.todo = ReadableAfter(k) /\ graph = Rebuilt(lines, k)

DriftInv == IInv /\ Faithful /\ CleanIsQuiet /\ Rebuilding

LEMMA DriftInit == Init => DriftInv
<1> SUFFICES ASSUME Init PROVE Faithful /\ CleanIsQuiet /\ Rebuilding
  BY InitInvariant DEF DriftInv
<1>1. Projecting = {}
  BY DEF Init, Projecting
<1>2. lines \in Seq(Line) /\ Len(lines) = 0
  BY DEF Init
<1>3. graph = Rebuilt(lines, Len(lines))
  BY <1>2, RebuiltSteps DEF Init
<1> QED
  BY <1>1, <1>3 DEF Init, NoReplay, Faithful, CleanIsQuiet, Rebuilding

(* Nothing that a command plans, and no death before its append, changes   *)
(* what the graph, the file or the writers that project are about.         *)
LEMMA QuietSteps ==
  ASSUME DriftInv, UNCHANGED <<lines, graph, replayer>>, drift' = drift,
         Projecting' = Projecting, \A v \in Projecting : plan'[v] = plan[v]
  PROVE  Faithful' /\ CleanIsQuiet' /\ Rebuilding'
<1>1. CleanIsQuiet' /\ Rebuilding'
  BY DEF DriftInv, CleanIsQuiet, Rebuilding, Readable, ReadableAfter
<1>2. Faithful'
  <2> SUFFICES ASSUME ~drift, replayer.mode # "apply"
               PROVE  \/ Projecting' = {} /\ graph' = Rebuilt(lines', Len(lines'))
                      \/ \E w \in Writer :
                           /\ Projecting' = {w}
                           /\ ApplyAll(graph', plan'[w]) = Rebuilt(lines', Len(lines'))
    BY DEF Faithful
  <2>1. CASE Projecting = {} /\ graph = Rebuilt(lines, Len(lines))
    BY <2>1
  <2>2. ASSUME NEW w \in Writer, Projecting = {w},
               ApplyAll(graph, plan[w]) = Rebuilt(lines, Len(lines))
        PROVE  Projecting' = {w} /\ ApplyAll(graph', plan'[w]) = Rebuilt(lines', Len(lines'))
    BY <2>2
  <2> QED
    BY <2>1, <2>2 DEF DriftInv, Faithful
<1> QED
  BY <1>1, <1>2

(* A whole command after a file that ends with a newline: its lines parse, *)
(* and those before it are as they were.                                   *)
LEMMA WholeLines ==
  ASSUME TypeOK, tail = "eol", NEW events \in Seq(Event),
         lines' = Glued(lines) \o NewLines(events)
  PROVE  /\ lines' \in Seq(Line) /\ Len(lines') = Len(lines) + Len(events)
         /\ \A i \in 1..Len(lines) : lines'[i] = lines[i]
         /\ \A i \in 1..Len(events) :
              lines'[Len(lines) + i].ok /\ lines'[Len(lines) + i].ev = events[i]
<1>1. lines \in Seq(Line) /\ DOMAIN lines = 1..Len(lines) /\ Len(lines) \in Nat
  BY DEF TypeOK
<1>2. Glued(lines) = lines
  <2>1. \A i \in 1..Len(lines) : lines[i] = [ev |-> lines[i].ev, ok |-> lines[i].ok]
    <3>1. \A i \in 1..Len(lines) : lines[i] \in Line
      BY <1>1
    <3> QED
      BY <3>1 DEF Line
  <2>2. \A i \in 1..Len(lines) : lines[i].ok \in BOOLEAN
    <3>1. \A i \in 1..Len(lines) : lines[i] \in Line
      BY <1>1
    <3> QED
      BY <3>1 DEF Line
  <2>3. \A i \in 1..Len(lines) :
          [ev |-> lines[i].ev, ok |-> lines[i].ok /\ (i = Len(lines) => tail = "eol")] = lines[i]
    BY <2>1, <2>2
  <2>4. lines = [i \in 1..Len(lines) |-> lines[i]]
    BY <1>1
  <2> QED
    BY <1>1, <2>3, <2>4 DEF Glued
<1> DEFINE more == NewLines(events)
<1>3. /\ more \in Seq(Line) /\ Len(more) = Len(events)
      /\ \A i \in 1..Len(events) : more[i].ok /\ more[i].ev = events[i]
  <2>1. more \in Seq(Line) /\ DOMAIN more = DOMAIN events
    BY NewLinesLemma
  <2>2. DOMAIN events = 1..Len(events) /\ DOMAIN more = 1..Len(more)
    BY <2>1
  <2>3. Len(more) \in Nat /\ Len(events) \in Nat
    BY <2>1
  <2>4. \A i \in 1..Len(events) : more[i].ok /\ more[i].ev = events[i]
    BY <2>2 DEF NewLines
  <2> HIDE DEF more
  <2> QED
    BY <2>1, <2>2, <2>3, <2>4
<1>4. lines' = lines \o more
  BY <1>2
<1> HIDE DEF more
<1>5. /\ lines' \in Seq(Line) /\ Len(lines') = Len(lines) + Len(more)
      /\ \A i \in 1..Len(lines) : lines'[i] = lines[i]
      /\ \A i \in 1..Len(more) : lines'[Len(lines) + i] = more[i]
  <2>1. lines \in Seq(Line) /\ more \in Seq(Line)
    BY <1>1, <1>3
  <2>2. /\ lines \o more \in Seq(Line) /\ Len(lines \o more) = Len(lines) + Len(more)
        /\ \A i \in 1..Len(lines) : (lines \o more)[i] = lines[i]
        /\ \A i \in 1..Len(more) : (lines \o more)[Len(lines) + i] = more[i]
    <3> HIDE DEF Line
    <3> QED
      BY <2>1, Joined
  <2> QED
    BY <1>4, <2>2, Zenon
<1>6. \A i \in 1..Len(events) :
        lines'[Len(lines) + i].ok /\ lines'[Len(lines) + i].ev = events[i]
  BY <1>3, <1>5
<1>7. Len(lines') = Len(lines) + Len(events)
  BY <1>3, <1>5
<1> QED
  BY <1>5, <1>6, <1>7

LEMMA WholeAppend ==
  ASSUME TypeOK, tail = "eol", NEW events \in Seq(Event),
         lines' = Glued(lines) \o NewLines(events)
  PROVE  Rebuilt(lines', Len(lines')) = ApplyAll(Rebuilt(lines, Len(lines)), events)
<1>1. lines \in Seq(Line)
  BY DEF TypeOK
<1> QED
  BY <1>1, WholeLines, RebuiltGrows

LEMMA DriftAppend ==
  ASSUME DriftInv, NEW w \in Writer, AppendEvents(w)
  PROVE  Faithful' /\ CleanIsQuiet' /\ Rebuilding'
<1> USE DEF AppendEvents
<1>1. TypeOK
  BY DEF DriftInv, IInv
<1>2. replayer'.clean = FALSE
  BY <1>1 DEF TypeOK, Replayer
<1>3. CleanIsQuiet' /\ Rebuilding'
  BY <1>2 DEF CleanIsQuiet, Rebuilding
<1>4. Faithful'
  <2> SUFFICES ASSUME ~drift'
               PROVE  /\ Projecting' = {w}
                      /\ ApplyAll(graph', plan'[w]) = Rebuilt(lines', Len(lines'))
    BY DEF Faithful
  <2>1. ~drift /\ Projecting = {} /\ replayer.mode = "idle" /\ tail = "eol"
    BY DEF Replaying
  <2>2. graph = Rebuilt(lines, Len(lines))
    BY <2>1 DEF DriftInv, Faithful
  <2>3. Projecting' = {w}
    BY <1>1, <2>1 DEF Projecting, TypeOK
  <2>4. plan[w] \in Seq(Event)
    BY <1>1 DEF TypeOK
  <2>5. Rebuilt(lines', Len(lines')) = ApplyAll(Rebuilt(lines, Len(lines)), plan[w])
    BY <1>1, <2>1, <2>4, WholeAppend
  <2> QED
    BY <2>2, <2>3, <2>5
<1> QED
  BY <1>3, <1>4

LEMMA DriftProject ==
  ASSUME DriftInv, NEW w \in Writer, ProjectOne(w)
  PROVE  Faithful' /\ CleanIsQuiet' /\ Rebuilding'
<1> USE DEF ProjectOne
<1>1. TypeOK /\ Held
  BY DEF DriftInv, IInv
<1>2. w \in Projecting
  BY DEF Projecting
<1>3. CleanIsQuiet' /\ Rebuilding'
  BY <1>2 DEF DriftInv, CleanIsQuiet, Rebuilding
<1>4. Faithful'
  <2> SUFFICES ASSUME ~drift, replayer.mode # "apply"
               PROVE  \/ Projecting' = {} /\ graph' = Rebuilt(lines, Len(lines))
                      \/ /\ Projecting' = {w}
                         /\ ApplyAll(graph', plan'[w]) = Rebuilt(lines, Len(lines))
    BY DEF Faithful
  <2>1. Projecting = {w} /\ ApplyAll(graph, plan[w]) = Rebuilt(lines, Len(lines))
    BY <1>2 DEF DriftInv, Faithful
  <2>2. plan[w] \in Seq(Event) /\ plan[w] # <<>>
    BY <1>1 DEF TypeOK, Held
  <2>3. ApplyAll(graph', Tail(plan[w])) = Rebuilt(lines, Len(lines))
    BY <2>1, <2>2, ApplyFirst
  <2>4. plan'[w] = Tail(plan[w])
    BY <1>1 DEF TypeOK
  <2>5. CASE Len(plan[w]) = 1
    <3>1. Tail(plan[w]) = <<>>
      <4>1. Tail(plan[w]) \in Seq(Event) /\ Len(Tail(plan[w])) = 0
        BY <2>2, <2>5, HeadTailProperties
      <4> QED
        BY <4>1, EmptySeq
    <3>2. graph' = Rebuilt(lines, Len(lines))
      BY <2>3, <3>1, ApplyNothing
    <3>3. Projecting' = {}
      BY <1>1, <2>1, <2>5 DEF Projecting, TypeOK
    <3> QED
      BY <3>2, <3>3
  <2>6. CASE Len(plan[w]) # 1
    <3>1. Projecting' = {w}
      BY <1>1, <2>1, <2>6 DEF Projecting, TypeOK
    <3> QED
      BY <2>3, <2>4, <3>1
  <2> QED
    BY <2>5, <2>6
<1> QED
  BY <1>3, <1>4

LEMMA DriftCrash ==
  ASSUME DriftInv, NEW w \in Writer, Crash(w)
  PROVE  Faithful' /\ CleanIsQuiet' /\ Rebuilding'
<1> USE DEF Crash
<1>1. TypeOK
  BY DEF DriftInv, IInv
<1>2. CASE pc[w] = "project"
  <2>1. drift'
    BY <1>2
  <2>2. Projecting' \subseteq Projecting
    BY <1>1 DEF Projecting, TypeOK
  <2> QED
    BY <2>1, <2>2
    DEF DriftInv, Faithful, CleanIsQuiet, Rebuilding, Readable, ReadableAfter
<1>3. CASE pc[w] # "project"
  <2>1. drift' = drift
    BY <1>1, <1>3 DEF TypeOK
  <2>2. Projecting' = Projecting /\ \A v \in Projecting : plan'[v] = plan[v]
    BY <1>1, <1>3 DEF Projecting, TypeOK
  <2> QED
    BY <2>1, <2>2, QuietSteps
<1> QED
  BY <1>2, <1>3

(* A replay: what it reads, what it wipes, and what it applies next.       *)
LEMMA DriftReplay ==
  ASSUME DriftInv, StartReplay \/ Wipe \/ StartSync \/ ApplyNext
                     \/ FinishReplay \/ CrashReplay
  PROVE  Faithful' /\ CleanIsQuiet' /\ Rebuilding'
<1>1. TypeOK /\ TodoInFile
  BY DEF DriftInv, IInv
<1>2. lines \in Seq(Line) /\ DOMAIN lines = 1..Len(lines) /\ Len(lines) \in Nat
  BY <1>1 DEF TypeOK
<1>3. UNCHANGED <<lines, pc, plan>> /\ Projecting' = Projecting /\ Readable' = Readable
  BY DEF StartReplay, Wipe, StartSync, ApplyNext, FinishReplay, CrashReplay, Projecting, Readable
<1>4. CASE StartReplay
  <2>1. /\ replayer.mode = "idle" /\ UNCHANGED <<graph, drift>>
        /\ replayer'.mode = "wipe" /\ replayer'.todo = ReadableAfter(0)
        /\ replayer'.clean = (Projecting = {})
    BY <1>4 DEF StartReplay, Replaying, Read
  <2>2. ReadableAfter(0) = Readable
    BY <1>2 DEF ReadableAfter, Readable
  <2>3. CleanIsQuiet' /\ Rebuilding'
    BY <1>3, <2>1, <2>2 DEF CleanIsQuiet, Rebuilding
  <2>4. Faithful'
    BY <1>3, <2>1 DEF DriftInv, Faithful
  <2> QED
    BY <2>3, <2>4
<1>5. CASE StartSync
  <2>1. replayer'.mode = "apply" /\ ~replayer'.full /\ replayer'.clean = (Projecting = {})
    BY <1>5 DEF StartSync, Read
  <2> QED
    BY <1>3, <2>1 DEF Faithful, CleanIsQuiet, Rebuilding
<1>6. CASE Wipe
  <2>1. /\ replayer.mode = "wipe" /\ graph' = EmptyGraph /\ replayer'.mode = "apply"
        /\ replayer'.todo = replayer.todo /\ replayer'.full = replayer.full
        /\ replayer'.clean = replayer.clean
    BY <1>1, <1>6 DEF Wipe, TypeOK, Replayer
  <2>2. Faithful' /\ CleanIsQuiet'
    BY <1>3, <2>1 DEF DriftInv, Faithful, CleanIsQuiet
  <2>3. Rebuilding'
    <3> SUFFICES ASSUME replayer'.full, replayer'.clean
                 PROVE  replayer'.todo = ReadableAfter(0)' /\ graph' = Rebuilt(lines', 0)
      BY <1>2, <1>3, <2>1 DEF Rebuilding
    <3>1. replayer.todo = Readable
      BY <2>1 DEF DriftInv, Rebuilding
    <3>2. ReadableAfter(0)' = Readable
      BY <1>2, <1>3 DEF ReadableAfter, Readable
    <3> QED
      BY <1>2, <1>3, <2>1, <3>1, <3>2, RebuiltSteps
  <2> QED
    BY <2>2, <2>3
<1>7. CASE ApplyNext
  <2>1. PICK i \in replayer.todo :
          /\ \A j \in replayer.todo : i <= j
          /\ graph' = ApplyEvent(graph, lines[i].ev)
          /\ replayer' = [replayer EXCEPT !.todo = @ \ {i}]
    BY <1>7 DEF ApplyNext
  <2>2. /\ replayer.mode = "apply" /\ replayer'.mode = "apply"
        /\ replayer'.todo = replayer.todo \ {i}
        /\ replayer'.full = replayer.full /\ replayer'.clean = replayer.clean
    BY <1>1, <1>7, <2>1 DEF ApplyNext, TypeOK, Replayer
  <2>3. Faithful' /\ CleanIsQuiet'
    BY <1>3, <2>2 DEF DriftInv, Faithful, CleanIsQuiet
  <2>4. Rebuilding'
    <3> SUFFICES ASSUME replayer.full, replayer.clean
                 PROVE  \E m \in 0..Len(lines') :
                          replayer'.todo = ReadableAfter(m)' /\ graph' = Rebuilt(lines', m)
      BY <2>2 DEF Rebuilding
    <3>1. PICK k \in 0..Len(lines) :
            replayer.todo = ReadableAfter(k) /\ graph = Rebuilt(lines, k)
      BY <2>2 DEF DriftInv, Rebuilding
    <3>2. i \in 1..Len(lines) /\ lines[i].ok /\ i > k
      BY <1>2, <2>1, <3>1 DEF ReadableAfter, Readable
    <3>3. i - 1 \in k..Len(lines) /\ k \in Nat /\ i - 1 \in Nat /\ i \in 0..Len(lines)
      BY <1>2, <3>2
    <3>4. \A j \in (k + 1)..(i - 1) : ~lines[j].ok
      <4> SUFFICES ASSUME NEW j \in (k + 1)..(i - 1), lines[j].ok PROVE FALSE
        OBVIOUS
      <4>1. j \in 1..Len(lines) /\ j > k /\ j < i
        BY <1>2, <3>2
      <4>2. j \in replayer.todo
        BY <1>2, <3>1, <4>1 DEF ReadableAfter, Readable
      <4> QED
        BY <1>2, <2>1, <3>2, <4>1, <4>2
    <3>5. Rebuilt(lines, i - 1) = Rebuilt(lines, k)
      BY <1>2, <3>3, <3>4, RebuiltSkips
    <3>6. \A j \in 1..Len(lines) :
            Rebuilt(lines, j) = IF lines[j].ok THEN ApplyEvent(Rebuilt(lines, j - 1), lines[j].ev)
                                ELSE Rebuilt(lines, j - 1)
      BY <1>2, RebuiltSteps
    <3>7. graph' = Rebuilt(lines, i)
      BY <2>1, <3>1, <3>2, <3>5, <3>6
    <3>8. replayer'.todo = ReadableAfter(i)
      <4>1. \A j \in replayer.todo : j # i => j > i /\ j \in Readable
        <5>1. \A j \in replayer.todo : j \in Nat /\ j \in Readable
          BY <1>2, <3>1 DEF ReadableAfter, Readable
        <5> QED
          BY <2>1, <3>2, <5>1
      <4>2. \A j \in Readable : j > i => j \in replayer.todo /\ j # i
        BY <1>2, <3>1, <3>2 DEF ReadableAfter, Readable
      <4> QED
        BY <2>2, <4>1, <4>2 DEF ReadableAfter
    <3>9. ReadableAfter(i)' = ReadableAfter(i)
      BY <1>3 DEF ReadableAfter
    <3> QED
      BY <1>3, <3>3, <3>7, <3>8, <3>9
  <2> QED
    BY <2>3, <2>4
<1>8. CASE FinishReplay
  <2>1. /\ replayer.mode = "apply" /\ replayer.todo = {} /\ graph' = graph
        /\ replayer' = NoReplay /\ drift' = ~(replayer.full /\ replayer.clean)
    BY <1>8 DEF FinishReplay
  <2>2. CleanIsQuiet' /\ Rebuilding'
    BY <2>1 DEF CleanIsQuiet, Rebuilding, NoReplay
  <2>3. Faithful'
    <3> SUFFICES ASSUME replayer.full, replayer.clean
                 PROVE  Projecting' = {} /\ graph' = Rebuilt(lines', Len(lines'))
      BY <2>1 DEF Faithful
    <3>1. PICK k \in 0..Len(lines) :
            replayer.todo = ReadableAfter(k) /\ graph = Rebuilt(lines, k)
      BY <2>1 DEF DriftInv, Rebuilding
    <3>2. \A j \in (k + 1)..Len(lines) : ~lines[j].ok
      <4> SUFFICES ASSUME NEW j \in (k + 1)..Len(lines), lines[j].ok PROVE FALSE
        OBVIOUS
      <4>1. j \in ReadableAfter(k)
        BY <1>2 DEF ReadableAfter, Readable
      <4> QED
        BY <2>1, <3>1, <4>1
    <3>3. Len(lines) \in k..Len(lines)
      BY <1>2
    <3>4. Rebuilt(lines, Len(lines)) = Rebuilt(lines, k)
      BY <1>2, <3>2, <3>3, RebuiltSkips
    <3>5. Projecting = {}
      BY DEF DriftInv, CleanIsQuiet
    <3> QED
      BY <1>3, <2>1, <3>1, <3>4, <3>5
  <2> QED
    BY <2>2, <2>3
<1>9. CASE CrashReplay
  <2>1. /\ graph' = graph /\ replayer' = NoReplay
        /\ drift' = (drift \/ replayer.mode = "apply")
    BY <1>9 DEF CrashReplay
  <2>2. CleanIsQuiet' /\ Rebuilding'
    BY <2>1 DEF CleanIsQuiet, Rebuilding, NoReplay
  <2>3. Faithful'
    BY <1>3, <2>1 DEF DriftInv, Faithful
  <2> QED
    BY <2>2, <2>3
<1> QED
  BY <1>4, <1>5, <1>6, <1>7, <1>8, <1>9

LEMMA DriftStep == DriftInv /\ [Next]_vars => DriftInv'
<1> SUFFICES ASSUME DriftInv, [Next]_vars PROVE Faithful' /\ CleanIsQuiet' /\ Rebuilding'
  BY NextInvariant DEF DriftInv
<1>0. TypeOK
  BY DEF DriftInv, IInv
<1>1. ASSUME NEW w \in Writer, Plan(w) PROVE Faithful' /\ CleanIsQuiet' /\ Rebuilding'
  <2>1. Projecting' = Projecting /\ \A v \in Projecting : plan'[v] = plan[v]
    BY <1>0, <1>1 DEF Plan, Projecting, TypeOK
  <2> QED
    BY <1>1, <2>1, QuietSteps DEF Plan
<1>2. ASSUME NEW w \in Writer, AppendEvents(w) PROVE Faithful' /\ CleanIsQuiet' /\ Rebuilding'
  BY <1>2, DriftAppend
<1>3. ASSUME NEW w \in Writer, ProjectOne(w) PROVE Faithful' /\ CleanIsQuiet' /\ Rebuilding'
  BY <1>3, DriftProject
<1>4. ASSUME NEW w \in Writer, Crash(w) PROVE Faithful' /\ CleanIsQuiet' /\ Rebuilding'
  BY <1>4, DriftCrash
<1>5. ASSUME NEW w \in Writer, TornAppend(w) PROVE Faithful' /\ CleanIsQuiet' /\ Rebuilding'
  <2>1. drift' /\ replayer'.clean = FALSE
    BY <1>0, <1>5 DEF TornAppend, TypeOK, Replayer
  <2> QED
    BY <2>1 DEF Faithful, CleanIsQuiet, Rebuilding
<1>6. CASE StartReplay \/ Wipe \/ StartSync \/ ApplyNext \/ FinishReplay \/ CrashReplay
  BY <1>6, DriftReplay
<1>7. CASE UNCHANGED vars
  <2>1. Projecting' = Projecting
    BY <1>7 DEF vars, Projecting
  <2> QED
    BY <1>7, <2>1, QuietSteps DEF vars
<1> QED
  BY <1>1, <1>2, <1>3, <1>4, <1>5, <1>6, <1>7 DEF Next

(* With nothing that parts them, the graph is the replay of the log        *)
(* whenever nobody is in the middle of projecting or replaying.            *)
THEOREM DriftHasACause == Spec => []DriftNeedsACause
<1>1. DriftInv => DriftNeedsACause
  BY DEF DriftInv, Faithful, DriftNeedsACause, Replaying, Rebuilt, LogView
<1>2. Spec => []DriftInv
  BY DriftInit, DriftStep, PTL DEF Spec
<1> QED
  BY <1>1, <1>2, PTL

-----------------------------------------------------------------------------
(***************************************************************************)
(* One process at a time (SerialSpec).  Every prefix of the file is a      *)
(* legal history with the graph that stands for it (Booked), what a        *)
(* command has planned comes from the graph of the whole log (Planned),    *)
(* and, when nobody syncs, the graph is always that of some prefix         *)
(* (Midway).                                                               *)
(***************************************************************************)
Whole == tail = "eol" /\ \A i \in DOMAIN lines : lines[i].ok

Alone == IsFiniteSet(Active) /\ \A x, y \in Active : x = y

Accounted == Spent(LogView) \subseteq minted

Booked == \A k \in 0..Len(lines) : Ledger(ReadTo(lines, k), Rebuilt(lines, k))

Reasoned == ReasonsMatch(Replay(LogView))

Planned ==
  \A w \in Writer : pc[w] = "append" =>
    /\ ~drift /\ Spent(plan[w]) \subseteq minted
    /\ plan[w] \in Commands(Replay(LogView), Fresh(LogView), w)

AllToDo == replayer.mode = "wipe" => replayer.todo = 1..Len(lines)

(* What is still to be applied follows line k. *)
Rest(w, k) ==
  /\ Len(plan[w]) = Len(lines) - k
  /\ \A i \in 1..Len(plan[w]) : lines[k + i].ev = plan[w][i]

Midway ==
  \E k \in 0..Len(lines) :
    /\ graph = Rebuilt(lines, k)
    /\ replayer.mode = "apply" => replayer.todo = (k + 1)..Len(lines)
    /\ \A w \in Projecting : Rest(w, k)

SerialInv ==
  /\ DriftInv /\ Whole /\ Alone /\ Accounted /\ Booked /\ Reasoned /\ Planned
  /\ AllToDo /\ (~Sync => Midway)

-----------------------------------------------------------------------------
(* What a file says of its first lines does not depend on what follows.    *)
LEMMA SameReading ==
  ASSUME NEW file \in Seq(Line), NEW more \in Seq(Line), Len(file) <= Len(more),
         \A i \in 1..Len(file) : more[i] = file[i]
  PROVE  \A k \in 0..Len(file) : /\ ReadTo(more, k) = ReadTo(file, k)
                                 /\ Rebuilt(more, k) = Rebuilt(file, k)
<1> DEFINE m == Len(file)
           f == [k \in 0..m |-> ReadTo(file, k)]
           h == [k \in 0..m |-> ReadTo(more, k)]
<1>1. m \in Nat /\ Len(more) \in Nat
  OBVIOUS
<1>2. /\ ReadTo(file, 0) = <<>> /\ ReadTo(more, 0) = <<>>
      /\ \A k \in 1..m :
           ReadTo(file, k) = IF file[k].ok THEN Append(ReadTo(file, k - 1), file[k].ev)
                             ELSE ReadTo(file, k - 1)
  BY ReadToSteps
<1>3. \A k \in 1..Len(more) :
        ReadTo(more, k) = IF more[k].ok THEN Append(ReadTo(more, k - 1), more[k].ev)
                          ELSE ReadTo(more, k - 1)
  BY ReadToSteps
<1>4. f[0] = h[0]
  BY <1>1, <1>2
<1>5. ASSUME NEW k \in 1..m, f[k - 1] = h[k - 1] PROVE f[k] = h[k]
  <2>1. k \in 0..m /\ k - 1 \in 0..m /\ k \in 1..Len(more) /\ more[k] = file[k]
    BY <1>1
  <2>2. ReadTo(file, k - 1) = ReadTo(more, k - 1)
    BY <1>5, <2>1
  <2>3. ReadTo(file, k) = ReadTo(more, k)
    BY <1>2, <1>3, <2>1, <2>2
  <2> QED
    BY <2>1, <2>3
<1>6. \A k \in 0..m : f[k] = h[k]
  <2>1. \A k \in 1..m : f[k - 1] = h[k - 1] => f[k] = h[k]
    BY <1>5
  <2> HIDE DEF f, h, m
  <2>2. Alike(f, h, m)
    BY <1>4, <2>1 DEF Alike
  <2> QED
    BY <1>1, <2>2, SameSteps
<1> QED
  BY <1>6 DEF Rebuilt

(* What is appended whole is read after what was there. *)
LEMMA LogGrows ==
  ASSUME NEW file \in Seq(Line), NEW events \in Seq(Event), NEW more \in Seq(Line),
         Len(more) = Len(file) + Len(events),
         \A i \in 1..Len(file) : more[i] = file[i],
         \A i \in 1..Len(events) :
           more[Len(file) + i].ok /\ more[Len(file) + i].ev = events[i]
  PROVE  ReadTo(more, Len(more)) = ReadTo(file, Len(file)) \o events
<1> DEFINE m == Len(file)
           n == Len(events)
           s == ReadTo(file, m)
           L == Len(s)
           R(i) == ReadTo(more, m + i)
           S == {i \in 0..n : /\ R(i) \in Seq(Event) /\ Len(R(i)) = L + i
                              /\ \A j \in 1..L : R(i)[j] = s[j]
                              /\ \A j \in 1..i : R(i)[L + j] = events[j]}
<1>1. m \in Nat /\ n \in Nat /\ Len(more) = m + n
  OBVIOUS
<1>2. s \in Seq(Event) /\ L \in Nat
  <2>1. m \in 0..Len(file)
    BY <1>1
  <2>2. s \in Seq(Event)
    BY <2>1, ReadToIsEvents
  <2> HIDE DEF s
  <2> QED
    BY <2>2
<1>3. R(0) = s
  <2>1. m \in 0..Len(file) /\ Len(file) <= Len(more) /\ m + 0 = m
    BY <1>1
  <2>2. \A k \in 0..Len(file) : ReadTo(more, k) = ReadTo(file, k)
    BY <2>1, SameReading
  <2> QED
    BY <2>1, <2>2
<1>4. 0 \in S
  <2> HIDE DEF s, R
  <2>1. 0 \in 0..n /\ R(0) \in Seq(Event) /\ Len(R(0)) = L + 0
    BY <1>1, <1>2, <1>3
  <2> QED
    BY <1>3, <2>1
<1>5. ASSUME NEW i \in 0..n, i \in S, i # n PROVE i + 1 \in S
  <2>1. /\ i + 1 \in 0..n /\ i + 1 \in 1..n /\ m + (i + 1) \in 1..Len(more)
        /\ (m + (i + 1)) - 1 = m + i
    BY <1>1, <1>5
  <2>2. \A k \in 1..Len(more) :
          ReadTo(more, k) = IF more[k].ok THEN Append(ReadTo(more, k - 1), more[k].ev)
                            ELSE ReadTo(more, k - 1)
    BY ReadToSteps
  <2>3. more[m + (i + 1)].ok /\ more[m + (i + 1)].ev = events[i + 1]
    BY <2>1
  <2>4. R(i + 1) = Append(R(i), events[i + 1])
    BY <2>1, <2>2, <2>3
  <2>5. /\ R(i) \in Seq(Event) /\ Len(R(i)) = L + i
        /\ \A j \in 1..L : R(i)[j] = s[j]
        /\ \A j \in 1..i : R(i)[L + j] = events[j]
    BY <1>5
  <2>6. events[i + 1] \in Event
    BY <2>1
  <2> HIDE DEF R, s
  <2> DEFINE q == R(i)
  <2>7. /\ q \in Seq(Event) /\ Len(q) = L + i /\ R(i + 1) = Append(q, events[i + 1])
    BY <2>4, <2>5
  <2> HIDE DEF q
  <2>8. /\ Append(q, events[i + 1]) \in Seq(Event) /\ Len(Append(q, events[i + 1])) = Len(q) + 1
        /\ \A j \in 1..Len(q) : Append(q, events[i + 1])[j] = q[j]
        /\ Append(q, events[i + 1])[Len(q) + 1] = events[i + 1]
    BY <2>7, <2>6
  <2>9. Len(q) + 1 = L + (i + 1)
    BY <1>1, <1>2, <2>7
  <2>10. R(i + 1) \in Seq(Event) /\ Len(R(i + 1)) = L + (i + 1)
    BY <2>7, <2>8, <2>9
  <2>11. \A j \in 1..(L + i) : R(i + 1)[j] = R(i)[j]
    BY <2>7, <2>8 DEF q
  <2>12. R(i + 1)[L + (i + 1)] = events[i + 1]
    BY <2>7, <2>8, <2>9
  <2>13. \A j \in 1..L : R(i + 1)[j] = s[j]
    BY <1>2, <2>5, <2>11
  <2>14. \A j \in 1..(i + 1) : R(i + 1)[L + j] = events[j]
    <3> SUFFICES ASSUME NEW j \in 1..(i + 1) PROVE R(i + 1)[L + j] = events[j]
      OBVIOUS
    <3>1. CASE j = i + 1
      BY <2>12, <3>1
    <3>2. CASE j # i + 1
      <4>1. j \in 1..i /\ L + j \in 1..(L + i)
        BY <1>2, <3>2
      <4> QED
        BY <2>5, <2>11, <4>1
    <3> QED
      BY <3>1, <3>2
  <2> QED
    BY <2>1, <2>10, <2>13, <2>14
<1>6. n \in S
  <2>1. \A i \in 0..n : i \in S /\ i # n => i + 1 \in S
    BY <1>5
  <2> HIDE DEF S
  <2>2. \A i \in 0..n : i \in S
    BY <1>1, <1>4, <2>1, UpTo
  <2> QED
    BY <1>1, <2>2
<1> DEFINE t == R(n)
<1>7. /\ t \in Seq(Event) /\ Len(t) = L + n
      /\ \A j \in 1..L : t[j] = s[j]
      /\ \A j \in 1..n : t[L + j] = events[j]
  BY <1>6
<1>8. t = ReadTo(more, Len(more))
  BY <1>1
<1> HIDE DEF t, s
<1>9. t = s \o events
  <2>1. /\ s \o events \in Seq(Event) /\ Len(s \o events) = L + n
        /\ \A j \in 1..L : (s \o events)[j] = s[j]
        /\ \A j \in 1..n : (s \o events)[L + j] = events[j]
    BY <1>2, Joined
  <2>2. ASSUME NEW j \in 1..(L + n) PROVE t[j] = (s \o events)[j]
    <3>1. CASE j \in 1..L
      BY <1>7, <2>1, <3>1
    <3>2. CASE j \notin 1..L
      <4>1. j - L \in 1..n /\ L + (j - L) = j
        BY <1>1, <1>2, <3>2
      <4> QED
        BY <1>7, <2>1, <4>1
    <3> QED
      BY <3>1, <3>2
  <2> QED
    BY <1>1, <1>2, <1>7, <2>1, <2>2
<1> QED
  BY <1>8, <1>9 DEF s

(* ... and when it fits the graph of the log, every prefix stays booked.   *)
LEMMA BookGrows ==
  ASSUME NEW file \in Seq(Line), NEW events \in Seq(Event), NEW more \in Seq(Line),
         Len(more) = Len(file) + Len(events),
         \A i \in 1..Len(file) : more[i] = file[i],
         \A i \in 1..Len(events) :
           more[Len(file) + i].ok /\ more[Len(file) + i].ev = events[i],
         Fitting(Rebuilt(file, Len(file)), events),
         \A k \in 0..Len(file) : Ledger(ReadTo(file, k), Rebuilt(file, k))
  PROVE  \A k \in 0..Len(more) : Ledger(ReadTo(more, k), Rebuilt(more, k))
<1> DEFINE m == Len(file)
           n == Len(events)
<1>1. m \in Nat /\ n \in Nat /\ Len(more) = m + n
  OBVIOUS
<1>2. \A k \in 0..m : ReadTo(more, k) = ReadTo(file, k) /\ Rebuilt(more, k) = Rebuilt(file, k)
  BY <1>1, SameReading
<1>3. PICK f : Run(f, Rebuilt(file, m), events) /\ AllFit(f, events)
  BY DEF Fitting
<1> DEFINE S == {i \in 0..n : /\ Rebuilt(more, m + i) = f[i]
                              /\ Ledger(ReadTo(more, m + i), Rebuilt(more, m + i))}
<1>4. 0 \in S
  <2>1. m \in 0..m /\ m + 0 = m /\ 0 \in 0..n /\ f[0] = Rebuilt(file, m)
    BY <1>1, <1>3 DEF Run
  <2> QED
    BY <1>2, <2>1
<1>5. ASSUME NEW i \in 0..n, i \in S, i # n PROVE i + 1 \in S
  <2>1. /\ i + 1 \in 0..n /\ i + 1 \in 1..n /\ m + (i + 1) \in 1..Len(more)
        /\ (m + (i + 1)) - 1 = m + i /\ (i + 1) - 1 = i
    BY <1>1, <1>5
  <2>2. more[m + (i + 1)].ok /\ more[m + (i + 1)].ev = events[i + 1]
    BY <2>1
  <2>3. \A k \in 1..Len(more) :
          /\ ReadTo(more, k) = IF more[k].ok THEN Append(ReadTo(more, k - 1), more[k].ev)
                               ELSE ReadTo(more, k - 1)
          /\ Rebuilt(more, k) = IF more[k].ok THEN ApplyEvent(Rebuilt(more, k - 1), more[k].ev)
                                ELSE Rebuilt(more, k - 1)
    BY ReadToSteps, RebuiltSteps
  <2>4. /\ ReadTo(more, m + (i + 1)) = Append(ReadTo(more, m + i), events[i + 1])
        /\ Rebuilt(more, m + (i + 1)) = ApplyEvent(Rebuilt(more, m + i), events[i + 1])
    BY <2>1, <2>2, <2>3
  <2>5. Rebuilt(more, m + i) = f[i] /\ Ledger(ReadTo(more, m + i), Rebuilt(more, m + i))
    BY <1>5
  <2>6. /\ f[i + 1] = ApplyEvent(f[i], events[i + 1]) /\ Fits(f[i], events[i + 1])
    <3>1. \A j \in 1..n : f[j] = ApplyEvent(f[j - 1], events[j]) /\ Fits(f[j - 1], events[j])
      BY <1>3 DEF Run, AllFit
    <3> QED
      BY <2>1, <3>1
  <2>7. events[i + 1] \in Event
    BY <2>1
  <2>8. Ledger(Append(ReadTo(more, m + i), events[i + 1]),
               ApplyEvent(Rebuilt(more, m + i), events[i + 1]))
    BY <2>5, <2>6, <2>7, EventKeeps
  <2>9. Ledger(ReadTo(more, m + (i + 1)), Rebuilt(more, m + (i + 1)))
    BY <2>4, <2>8
  <2>10. Rebuilt(more, m + (i + 1)) = f[i + 1]
    BY <2>4, <2>5, <2>6
  <2> QED
    BY <2>1, <2>9, <2>10
<1>6. \A i \in 0..n : i \in S
  <2>1. \A i \in 0..n : i \in S /\ i # n => i + 1 \in S
    BY <1>5
  <2> HIDE DEF S
  <2> QED
    BY <1>1, <1>4, <2>1, UpTo
<1>7. ASSUME NEW k \in 0..Len(more) PROVE Ledger(ReadTo(more, k), Rebuilt(more, k))
  <2>1. CASE k <= m
    <3>1. k \in 0..m
      BY <1>1, <2>1
    <3> QED
      BY <1>2, <3>1
  <2>2. CASE ~(k <= m)
    <3>1. k - m \in 0..n /\ m + (k - m) = k
      BY <1>1, <2>2
    <3> QED
      BY <1>6, <3>1
  <2> QED
    BY <2>1, <2>2
<1> QED
  BY <1>7

(* The ids that a command plans to create are the ones it spends. *)
LEMMA SpentTogether ==
  ASSUME NEW h \in Seq(Event), NEW c \in Seq(Event)
  PROVE  Spent(h \o c) = Spent(h) \cup Spent(c)
<1> DEFINE t == h \o c
           m == Len(h)
           n == Len(c)
<1>1. /\ m \in Nat /\ n \in Nat /\ t \in Seq(Event) /\ Len(t) = m + n
      /\ \A j \in 1..m : t[j] = h[j]
      /\ \A j \in 1..n : t[m + j] = c[j]
  BY Joined
<1>2. DOMAIN t = 1..(m + n) /\ DOMAIN h = 1..m /\ DOMAIN c = 1..n
  BY <1>1
<1> HIDE DEF t, m, n
<1>3. \A x : /\ x \in Spent(t) <=> \E j \in 1..(m + n) : t[j].type = ArtifactCreated /\ x = t[j].a
             /\ x \in Spent(h) <=> \E j \in 1..m : h[j].type = ArtifactCreated /\ x = h[j].a
             /\ x \in Spent(c) <=> \E j \in 1..n : c[j].type = ArtifactCreated /\ x = c[j].a
  BY <1>2 DEF Spent
<1>4. ASSUME NEW x \in Spent(t) PROVE x \in Spent(h) \cup Spent(c)
  <2>1. PICK j \in 1..(m + n) : t[j].type = ArtifactCreated /\ x = t[j].a
    BY <1>3
  <2>2. CASE j \in 1..m
    BY <1>1, <1>3, <2>1, <2>2
  <2>3. CASE j \notin 1..m
    <3>1. j - m \in 1..n /\ m + (j - m) = j
      BY <1>1, <2>3
    <3>2. t[j] = c[j - m]
      BY <1>1, <3>1
    <3> QED
      BY <1>3, <2>1, <3>1, <3>2
  <2> QED
    BY <2>2, <2>3
<1>5. ASSUME NEW x \in Spent(h) PROVE x \in Spent(t)
  <2>1. PICK j \in 1..m : h[j].type = ArtifactCreated /\ x = h[j].a
    BY <1>3
  <2>2. j \in 1..(m + n) /\ t[j] = h[j]
    BY <1>1
  <2> QED
    BY <1>3, <2>1, <2>2
<1>6. ASSUME NEW x \in Spent(c) PROVE x \in Spent(t)
  <2>1. PICK j \in 1..n : c[j].type = ArtifactCreated /\ x = c[j].a
    BY <1>3
  <2>2. m + j \in 1..(m + n) /\ t[m + j] = c[j]
    BY <1>1
  <2> QED
    BY <1>3, <2>1, <2>2
<1> QED
  BY <1>4, <1>5, <1>6 DEF t

-----------------------------------------------------------------------------
(* An empty ledger. *)
LEMMA EmptyLedger ==
  /\ Ledger(<<>>, EmptyGraph) /\ ReasonsMatch(EmptyGraph) /\ Spent(<<>>) = {}
<1>1. EmptyGraph \in Graph
  BY EmptyIsBacked
<1>2. \A a \in Artifact : EmptyGraph.node[a] = <<>> /\ Len(EmptyGraph.node[a]) = 0
  BY DEF EmptyGraph
<1>3. \A l \in Link : EmptyGraph.edge[l] = 0
  BY DEF EmptyGraph
<1>4. OneNodeEach(EmptyGraph)
  BY <1>2, <1>3 DEF OneNodeEach
<1>5. NodesKnown(<<>>, EmptyGraph)
  BY <1>2 DEF NodesKnown
<1>6. \A a : Moves(<<>>, a) = {}
  BY DEF Moves
<1>7. Tracked(<<>>, EmptyGraph) /\ LegalHistory(<<>>)
  BY <1>2, <1>6, TaskAssumption DEF Tracked, LegalHistory
<1>8. PrecedesPairs(EmptyGraph) = {}
  <2>1. \A p \in Task \X Task : <<p[1], "precedes", p[2]>> \in Link
    BY TaskAssumption DEF Link
  <2> QED
    BY <1>3, <2>1 DEF PrecedesPairs
<1>9. PairsAcyclic(EmptyGraph)
  <2>1. Endpoints({}) = {}
    BY DEF Endpoints
  <2>2. Finite({}) /\ NoWayBack({})
    BY <2>1, FS_EmptySet DEF Finite, NoWayBack
  <2> QED
    BY <1>8, <2>2 DEF PairsAcyclic
<1>10. ReasonsMatch(EmptyGraph)
  BY <1>2, TaskAssumption DEF ReasonsMatch, Resolves
<1>11. Spent(<<>>) = {}
  BY DEF Spent
<1> QED
  BY <1>1, <1>4, <1>5, <1>7, <1>9, <1>10, <1>11 DEF Ledger

LEMMA SerialInit == Init => SerialInv
<1> SUFFICES ASSUME Init PROVE SerialInv
  OBVIOUS
<1>1. DriftInv
  BY DriftInit
<1>2. lines = <<>> /\ lines \in Seq(Line) /\ Len(lines) = 0
  BY DEF Init
<1>3. ReadTo(lines, 0) = <<>> /\ Rebuilt(lines, 0) = EmptyGraph
  BY <1>2, ReadToSteps, RebuiltSteps
<1>4. LogView = <<>> /\ Replay(LogView) = EmptyGraph
  BY <1>2, <1>3 DEF LogView, Rebuilt
<1>5. Whole
  BY <1>2 DEF Init, Whole
<1>6. Active = {}
  BY DEF Init, Active, Replaying, NoReplay
<1>7. Alone
  BY <1>6, FS_EmptySet DEF Alone
<1>8. Accounted /\ Reasoned
  BY <1>4, EmptyLedger DEF Accounted, Reasoned
<1>9. Booked
  BY <1>2, <1>3, EmptyLedger DEF Booked
<1>10. Planned /\ AllToDo
  BY DEF Init, Planned, AllToDo, NoReplay
<1>11. Midway
  BY <1>2, <1>3 DEF Init, Midway, Projecting, NoReplay
<1> QED
  BY <1>1, <1>5, <1>7, <1>8, <1>9, <1>10, <1>11 DEF SerialInv

(* Who is at work, when at most one process is. *)
LEMMA WhoWorks ==
  ASSUME Alone
  PROVE  /\ \A v, w \in Writer : pc[v] # "idle" /\ pc[w] # "idle" => v = w
         /\ \A w \in Writer : pc[w] # "idle" => ~Replaying /\ Active = {w}
<1>1. ASSUME NEW w \in Writer, pc[w] # "idle" PROVE w \in Active /\ w # Nil
  <2>1. w \in Value
    BY EventStoreAssumption, TaskAssumption
  <2> QED
    BY <1>1, <2>1, ProjectionAssumption DEF Active
<1>2. Replaying => Nil \in Active
  BY DEF Active
<1> QED
  BY <1>1, <1>2 DEF Alone

(* A step adds at most one process to those at work, and Serial counts     *)
(* them.                                                                   *)
LEMMA AloneStep ==
  ASSUME TypeOK, Alone, SerialNext
  PROVE  Alone'
<1>1. Active \subseteq Writer \cup {Nil}
  BY DEF Active
<1>2. \E x : Active' \subseteq Active \cup {x}
  <2>1. ASSUME NEW w \in Writer, Plan(w) \/ AppendEvents(w) \/ ProjectOne(w) \/ Crash(w)
                                  \/ TornAppend(w)
        PROVE  Active' \subseteq Active \cup {w}
    <3>1. \A v \in Writer : v # w => pc'[v] = pc[v]
      BY <2>1 DEF TypeOK, Plan, AppendEvents, ProjectOne, Crash, TornAppend
    <3>2. Replaying' <=> Replaying
      BY <2>1 DEF TypeOK, Replayer, Replaying, Plan, AppendEvents, ProjectOne, Crash, TornAppend
    <3> QED
      BY <3>1, <3>2 DEF Active
  <2>2. CASE StartReplay \/ Wipe \/ StartSync \/ ApplyNext \/ FinishReplay \/ CrashReplay
    <3>1. pc' = pc
      BY <2>2 DEF StartReplay, Wipe, StartSync, ApplyNext, FinishReplay, CrashReplay
    <3>2. Active' \subseteq Active \cup {Nil}
      BY <3>1 DEF Active
    <3> QED
      BY <3>2
  <2> QED
    BY <2>1, <2>2 DEF SerialNext, Next
<1>3. IsFiniteSet(Active')
  BY <1>2, FS_AddElement, FS_Subset DEF Alone
<1>4. Cardinality(Active') \in Nat /\ Cardinality(Active') <= 1
  BY <1>3, FS_CardinalityType DEF SerialNext, Serial
<1>5. CASE Cardinality(Active') = 0
  <2>1. Active' = {}
    BY <1>3, <1>5, FS_EmptySet
  <2> QED
    BY <1>3, <2>1 DEF Alone
<1>6. CASE Cardinality(Active') = 1
  <2>1. \E x : Active' = {x}
    BY <1>3, <1>6, FS_Singleton
  <2> QED
    BY <1>3, <2>1 DEF Alone
<1> QED
  BY <1>4, <1>5, <1>6

(* The settled graph is the replay of the log. *)
GraphIsSettled == SettledGraph = Replay(LogView)

LEMMA SettledIsReplay == DriftInv => GraphIsSettled
<1> SUFFICES ASSUME DriftInv PROVE SettledGraph = Replay(LogView)
  BY DEF GraphIsSettled
<1>1. ASSUME Active = {}, ~drift PROVE graph = Replay(LogView)
  <2>1. ~Replaying /\ Projecting = {}
    BY <1>1 DEF Active, Projecting
  <2> QED
    BY <1>1, <2>1 DEF DriftInv, Faithful, Replaying, Rebuilt, LogView
<1> QED
  BY <1>1 DEF SettledGraph

(* Fewer fresh ids, fewer plans. *)
LEMMA FewerFresh ==
  ASSUME NEW g, NEW fresh, NEW more, fresh \subseteq more, NEW actor
  PROVE  Commands(g, fresh, actor) \subseteq Commands(g, more, actor)
<1>1. Creations(g, fresh) \subseteq Creations(g, more)
  BY DEF Creations
<1> QED
  BY <1>1 DEF Commands

(* A command fits the graph of the log it was planned from. *)
LEMMA PlannedKeeps ==
  ASSUME TypeOK, Booked, Reasoned, NEW w \in Writer,
         NEW c \in Commands(Replay(LogView), Fresh(LogView), w)
  PROVE  Keeps(Replay(LogView), c)
<1>1. Len(lines) \in 0..Len(lines)
  BY DEF TypeOK
<1>2. Ledger(LogView, Replay(LogView))
  BY <1>1 DEF Booked, LogView, Rebuilt
<1>3. /\ Replay(LogView) \in Graph /\ PairsAcyclic(Replay(LogView))
      /\ NodesKnown(LogView, Replay(LogView))
  BY <1>2 DEF Ledger
<1>4. \A a \in Fresh(LogView) : Replay(LogView).node[a] = <<>>
  BY <1>3 DEF NodesKnown, Fresh
<1>5. Fresh(LogView) \in SUBSET Artifact /\ w \in Actor
  BY EventStoreAssumption DEF Fresh
<1> QED
  BY <1>3, <1>4, <1>5, CommandKeeps DEF Reasoned

(* What a step keeps when it leaves the file alone. *)
Settled == Whole /\ Accounted /\ Booked /\ Reasoned

LEMMA SameLog ==
  ASSUME Settled, UNCHANGED <<lines, tail>>, minted \subseteq minted'
  PROVE  Settled' /\ LogView' = LogView
<1>1. LogView' = LogView
  BY DEF LogView
<1> QED
  BY <1>1 DEF Settled, Whole, Accounted, Booked, Reasoned

OneAtWork == \A v, w \in Writer : pc[v] # "idle" /\ pc[w] # "idle" => v = w /\ ~Replaying

LEMMA OneWorks == Alone => OneAtWork
BY WhoWorks DEF OneAtWork

LEMMA OneWorksNext == Alone' => OneAtWork'
BY OneWorks, PTL

Kept == Settled /\ Planned /\ AllToDo /\ (~Sync => Midway)

LEMMA SerialIsKept ==
  /\ SerialInv <=> DriftInv /\ Alone /\ Kept
  /\ SerialInv => TypeOK
BY DEF SerialInv, Kept, Settled, DriftInv, IInv

LEMMA SerialPlan ==
  ASSUME SerialInv, Alone', RebuildFirst, NEW w \in Writer, Plan(w)
  PROVE  Kept'
<1> USE DEF Plan
<1>0. TypeOK /\ DriftInv /\ Kept
  BY SerialIsKept
<1>1. PICK c \in Commands(graph, Artifact \ minted, w) :
        plan' = [plan EXCEPT ![w] = c] /\ minted' = minted \cup Spent(c)
  OBVIOUS
<1>2. pc'[w] = "append" /\ pc[w] = "idle" /\ \A v \in Writer : v # w => pc'[v] = pc[v]
  BY <1>0 DEF TypeOK
<1>3. ~drift
  BY <1>2 DEF RebuildFirst
<1>4. \A v \in Writer : pc[v] = "idle"
  BY <1>2, OneWorksNext DEF OneAtWork
<1>5. ~Replaying' /\ ~Replaying
  BY <1>2, OneWorksNext DEF OneAtWork, Replaying
<1>6. Active = {}
  BY <1>4, <1>5 DEF Active
<1>7. graph = Replay(LogView)
  BY <1>0, <1>3, <1>6, SettledIsReplay DEF GraphIsSettled, SettledGraph
<1>8. Settled' /\ LogView' = LogView
  BY <1>0, <1>1, SameLog DEF Kept
<1>9. Planned'
  <2>1. Artifact \ minted \subseteq Fresh(LogView)
    BY <1>0 DEF Kept, Settled, Accounted, Fresh
  <2>2. c \in Commands(Replay(LogView), Fresh(LogView), w)
    BY <1>1, <1>7, <2>1, FewerFresh
  <2>3. plan'[w] = c
    BY <1>0, <1>1 DEF TypeOK
  <2>4. ASSUME NEW v \in Writer, pc'[v] = "append" PROVE v = w
    BY <1>2, <1>4, <2>4
  <2>5. Fresh(LogView') = Fresh(LogView)
    BY <1>8
  <2> QED
    BY <1>1, <1>3, <1>8, <2>2, <2>3, <2>4, <2>5 DEF Planned
<1>10. AllToDo'
  BY <1>0 DEF Kept, AllToDo
<1>11. Projecting' = {}
  BY <1>2, <1>4 DEF Projecting
<1>12. ~Sync => Midway'
  BY <1>0, <1>11 DEF Kept, Midway
<1> QED
  BY <1>8, <1>9, <1>10, <1>12 DEF Kept

(* Everything that was planned is appended: the log grows by one command.  *)
LEMMA WholeCommand ==
  ASSUME SerialInv, NEW w \in Writer, AppendEvents(w)
  PROVE  /\ LogView' = LogView \o plan[w]
         /\ Replay(LogView)' = ApplyAll(Replay(LogView), plan[w])
         /\ plan[w] \in Commands(Replay(LogView), Fresh(LogView), w)
         /\ plan[w] \in Seq(Event) /\ plan[w] # <<>>
<1> USE DEF AppendEvents
<1>0. TypeOK /\ DriftInv /\ Kept
  BY SerialIsKept
<1>1. plan[w] \in Seq(Event) /\ plan[w] # <<>>
  BY <1>0 DEF TypeOK, DriftInv, IInv, Held
<1>2. tail = "eol" /\ lines \in Seq(Line)
  BY <1>0 DEF Kept, Settled, Whole, TypeOK
<1> DEFINE more == lines'
           c == plan[w]
<1>3. /\ more \in Seq(Line) /\ Len(more) = Len(lines) + Len(c)
      /\ \A i \in 1..Len(lines) : more[i] = lines[i]
      /\ \A i \in 1..Len(c) : more[Len(lines) + i].ok /\ more[Len(lines) + i].ev = c[i]
  BY <1>0, <1>1, <1>2, WholeLines
<1>4. Rebuilt(more, Len(more)) = ApplyAll(Rebuilt(lines, Len(lines)), c)
  BY <1>0, <1>1, <1>2, WholeAppend
<1>5. LogView' = ReadTo(more, Len(more))
  BY DEF LogView
<1>6. Replay(LogView)' = Rebuilt(more, Len(more))
  BY DEF Rebuilt, LogView
<1> HIDE DEF more, c
<1>7. ReadTo(more, Len(more)) = ReadTo(lines, Len(lines)) \o c
  <2>1. c \in Seq(Event)
    BY <1>1 DEF c
  <2> QED
    BY <1>2, <1>3, <2>1, LogGrows
<1>8. plan[w] \in Commands(Replay(LogView), Fresh(LogView), w)
  BY <1>0 DEF Kept, Planned
<1> QED
  BY <1>1, <1>4, <1>5, <1>6, <1>7, <1>8 DEF Rebuilt, LogView, c

LEMMA SerialAppend ==
  ASSUME SerialInv, NEW w \in Writer, AppendEvents(w)
  PROVE  Kept'
<1> USE DEF AppendEvents
<1>0. TypeOK /\ DriftInv /\ Alone /\ Kept
  BY SerialIsKept
<1>1. /\ LogView' = LogView \o plan[w]
      /\ Replay(LogView)' = ApplyAll(Replay(LogView), plan[w])
      /\ plan[w] \in Commands(Replay(LogView), Fresh(LogView), w)
      /\ plan[w] \in Seq(Event)
  BY WholeCommand
<1>2. tail = "eol" /\ lines \in Seq(Line) /\ \A i \in 1..Len(lines) : lines[i].ok
  BY <1>0 DEF Kept, Settled, Whole, TypeOK
<1> DEFINE more == lines'
           c == plan[w]
           m == Len(lines)
<1>3. /\ more \in Seq(Line) /\ Len(more) = m + Len(c)
      /\ \A i \in 1..m : more[i] = lines[i]
      /\ \A i \in 1..Len(c) : more[m + i].ok /\ more[m + i].ev = c[i]
  BY <1>0, <1>1, <1>2, WholeLines
<1>4. m \in Nat /\ Len(c) \in Nat /\ m \in 0..m
  BY <1>1, <1>2
<1>5. Keeps(Replay(LogView), c)
  BY <1>0, <1>1, PlannedKeeps DEF Kept, Settled
<1>6. ~drift /\ Spent(c) \subseteq minted
  BY <1>0 DEF Kept, Planned
<1>7. \A v \in Writer : v # w => pc[v] = "idle"
  BY <1>0, OneWorks DEF OneAtWork
<1>8. ~Replaying
  BY <1>0, OneWorks DEF OneAtWork
<1>9. pc'[w] = "project" /\ \A v \in Writer : v # w => pc'[v] = "idle"
  BY <1>0, <1>7 DEF TypeOK
<1>10. Whole'
  <2>1. \A i \in 1..Len(more) : more[i].ok
    <3> HIDE DEF more, c, m
    <3> SUFFICES ASSUME NEW i \in 1..Len(more) PROVE more[i].ok
      OBVIOUS
    <3>1. CASE i \in 1..m
      BY <1>2, <1>3, <3>1 DEF m
    <3>2. CASE i \notin 1..m
      <4>1. i - m \in 1..Len(c) /\ m + (i - m) = i
        BY <1>3, <1>4, <3>2
      <4> QED
        BY <1>3, <4>1
    <3> QED
      BY <3>1, <3>2
  <2>2. DOMAIN more = 1..Len(more)
    BY <1>3
  <2> QED
    BY <2>1, <2>2 DEF Whole
<1>11. Accounted'
  <2>1. LogView \in Seq(Event)
    BY <1>2, <1>4, ReadToIsEvents DEF LogView
  <2>2. Spent(LogView') = Spent(LogView) \cup Spent(c)
    BY <1>1, <2>1, SpentTogether
  <2> QED
    BY <1>0, <1>6, <2>2 DEF Kept, Settled, Accounted
<1>12. Booked'
  <2>1. Fitting(Rebuilt(lines, m), c)
    BY <1>5 DEF Keeps, Rebuilt, LogView
  <2>2. \A k \in 0..m : Ledger(ReadTo(lines, k), Rebuilt(lines, k))
    BY <1>0 DEF Kept, Settled, Booked
  <2>3. \A k \in 0..Len(more) : Ledger(ReadTo(more, k), Rebuilt(more, k))
    <3>1. c \in Seq(Event)
      BY <1>1
    <3> HIDE DEF more, c
    <3> QED
      BY <1>2, <1>3, <2>1, <2>2, <3>1, BookGrows
  <2> QED
    BY <2>3 DEF Booked
<1>13. Reasoned'
  BY <1>1, <1>5 DEF Keeps, Reasoned
<1>14. Planned' /\ AllToDo'
  <2>1. replayer'.mode = "idle"
    BY <1>0, <1>8 DEF Replaying, TypeOK, Replayer
  <2>2. \A v \in Writer : pc'[v] # "append"
    BY <1>9
  <2> QED
    BY <2>1, <2>2 DEF Planned, AllToDo
<1>15. Midway'
  <2>1. graph = Rebuilt(lines, m)
    <3>1. Projecting = {}
      BY <1>7 DEF Projecting
    <3> QED
      BY <1>0, <1>6, <1>8, <3>1 DEF DriftInv, Faithful, Replaying
  <2>2. Rebuilt(more, m) = Rebuilt(lines, m)
    <3>1. m <= Len(more)
      BY <1>3, <1>4
    <3> QED
      BY <1>2, <1>3, <1>4, <3>1, SameReading
  <2>3. replayer'.mode = "idle"
    BY <1>0, <1>8 DEF Replaying, TypeOK, Replayer
  <2>4. Projecting' = {w}
    BY <1>9 DEF Projecting
  <2>5. plan' = plan /\ graph' = graph
    OBVIOUS
  <2>6. PICK k \in 0..Len(lines) : k = m
    BY <1>4
  <2>7. Rest(w, k)'
    <3>1. Len(plan'[w]) = Len(more) - k
      BY <1>3, <1>4, <2>5, <2>6
    <3>2. \A i \in 1..Len(plan'[w]) : more[k + i].ev = plan'[w][i]
      BY <1>3, <2>5, <2>6
    <3> QED
      BY <3>1, <3>2 DEF Rest
  <2>8. k \in 0..Len(lines') /\ graph' = Rebuilt(lines', k)
    BY <1>3, <1>4, <2>1, <2>2, <2>5, <2>6
  <2> HIDE DEF m
  <2> QED
    BY <2>3, <2>4, <2>7, <2>8 DEF Midway
<1> QED
  BY <1>10, <1>11, <1>12, <1>13, <1>14, <1>15 DEF Kept, Settled

(* The next line follows from the graph of the ones before it. *)
LEMMA NextLine ==
  ASSUME TypeOK, Whole, NEW k \in 0..Len(lines), k # Len(lines)
  PROVE  /\ k + 1 \in 0..Len(lines) /\ k + 1 \in 1..Len(lines)
         /\ Rebuilt(lines, k + 1) = ApplyEvent(Rebuilt(lines, k), lines[k + 1].ev)
<1>1. lines \in Seq(Line) /\ Len(lines) \in Nat
  BY DEF TypeOK
<1>2. k + 1 \in 0..Len(lines) /\ k + 1 \in 1..Len(lines) /\ (k + 1) - 1 = k
  BY <1>1
<1>3. \A j \in 1..Len(lines) :
        Rebuilt(lines, j) = IF lines[j].ok THEN ApplyEvent(Rebuilt(lines, j - 1), lines[j].ev)
                            ELSE Rebuilt(lines, j - 1)
  BY <1>1, RebuiltSteps
<1>4. lines[k + 1].ok
  BY <1>1, <1>2 DEF Whole
<1> QED
  BY <1>2, <1>3, <1>4

LEMMA SerialProject ==
  ASSUME SerialInv, NEW w \in Writer, ProjectOne(w)
  PROVE  Kept'
<1> USE DEF ProjectOne
<1>0. TypeOK /\ DriftInv /\ Alone /\ Kept
  BY SerialIsKept
<1>1. Settled' /\ LogView' = LogView
  BY <1>0, SameLog DEF Kept
<1>2. \A v \in Writer : v # w => pc[v] = "idle" /\ pc'[v] = "idle"
  BY <1>0, OneWorks DEF OneAtWork, TypeOK
<1>3. pc'[w] \in {"idle", "project"}
  BY <1>0 DEF TypeOK
<1>4. ~Replaying
  BY <1>0, OneWorks DEF OneAtWork
<1>5. Planned' /\ AllToDo'
  BY <1>0, <1>2, <1>3, <1>4 DEF Planned, AllToDo, Replaying
<1>6. ASSUME Midway PROVE Midway'
  <2>1. Projecting = {w} /\ Projecting' \subseteq {w}
    BY <1>2 DEF Projecting
  <2>2. PICK k \in 0..Len(lines) : graph = Rebuilt(lines, k) /\ Rest(w, k)
    BY <1>6, <2>1 DEF Midway
  <2> DEFINE c == plan[w]
  <2>3. c \in Seq(Event) /\ c # <<>> /\ Len(lines) \in Nat
    BY <1>0 DEF TypeOK, DriftInv, IInv, Held
  <2>4. Len(c) = Len(lines) - k /\ \A i \in 1..Len(c) : lines[k + i].ev = c[i]
    BY <2>2 DEF Rest
  <2>5. Len(c) \in Nat /\ Len(c) # 0 /\ 1 \in 1..Len(c) /\ k # Len(lines)
    BY <2>3, <2>4
  <2>6. Head(c) = lines[k + 1].ev
    BY <2>3, <2>4, <2>5
  <2>7. /\ k + 1 \in 0..Len(lines)
        /\ Rebuilt(lines, k + 1) = ApplyEvent(Rebuilt(lines, k), lines[k + 1].ev)
    BY <1>0, <2>5, NextLine DEF Kept, Settled
  <2>8. graph' = Rebuilt(lines', k + 1)
    BY <2>2, <2>6, <2>7
  <2>9. plan'[w] = Tail(c)
    BY <1>0 DEF TypeOK
  <2>10. Rest(w, k + 1)'
    <3> HIDE DEF c
    <3>1. /\ Tail(c) \in Seq(Event) /\ Len(Tail(c)) = Len(c) - 1
          /\ \A i \in 1..(Len(c) - 1) : Tail(c)[i] = c[i + 1]
      BY <2>3
    <3>2. Len(plan'[w]) = Len(lines') - (k + 1)
      <4>1. Len(plan'[w]) = Len(c) - 1 /\ Len(c) = Len(lines) - k /\ lines' = lines
        BY <2>4, <2>9, <3>1
      <4>2. k \in Nat
        BY <2>3
      <4> QED
        BY <2>3, <4>1, <4>2
    <3>3. ASSUME NEW i \in 1..Len(plan'[w]) PROVE lines'[(k + 1) + i].ev = plan'[w][i]
      <4>1. i \in 1..(Len(c) - 1) /\ i + 1 \in 1..Len(c) /\ (k + 1) + i = k + (i + 1)
        BY <2>5, <2>9, <3>1, <3>3
      <4> QED
        BY <2>4, <2>9, <3>1, <4>1
    <3> QED
      BY <3>2, <3>3 DEF Rest
  <2>11. replayer'.mode # "apply"
    BY <1>4 DEF Replaying
  <2> QED
    BY <2>1, <2>7, <2>8, <2>10, <2>11 DEF Midway
<1> QED
  BY <1>0, <1>1, <1>5, <1>6 DEF Kept

LEMMA SerialCrash ==
  ASSUME SerialInv, NEW w \in Writer, Crash(w)
  PROVE  Kept'
<1> USE DEF Crash
<1>0. TypeOK /\ DriftInv /\ Alone /\ Kept
  BY SerialIsKept
<1>1. Settled' /\ LogView' = LogView
  BY <1>0, SameLog DEF Kept
<1>2. \A v \in Writer : pc'[v] = "idle"
  BY <1>0, OneWorks DEF OneAtWork, TypeOK
<1>3. ~Replaying
  BY <1>0, OneWorks DEF OneAtWork
<1>4. Planned' /\ AllToDo' /\ Projecting' = {}
  BY <1>2, <1>3 DEF Planned, AllToDo, Projecting, Replaying
<1>5. Midway => Midway'
  BY <1>4 DEF Midway
<1> QED
  BY <1>0, <1>1, <1>4, <1>5 DEF Kept

LEMMA SerialReplay ==
  ASSUME SerialInv, Alone',
         StartReplay \/ Wipe \/ StartSync \/ ApplyNext \/ FinishReplay \/ CrashReplay
  PROVE  Kept'
<1>0. TypeOK /\ DriftInv /\ Alone /\ Kept
  BY SerialIsKept
<1>1. UNCHANGED <<lines, tail, pc, plan, minted>>
  BY DEF StartReplay, Wipe, StartSync, ApplyNext, FinishReplay, CrashReplay
<1>2. Settled' /\ LogView' = LogView
  BY <1>0, <1>1, SameLog DEF Kept
<1>3. Replaying \/ Replaying'
  BY DEF StartReplay, Wipe, StartSync, ApplyNext, FinishReplay, CrashReplay, Replaying, Read
<1>4. \A v \in Writer : pc[v] = "idle"
  BY <1>0, <1>1, <1>3, OneWorks, OneWorksNext DEF OneAtWork
<1>5. Planned' /\ Projecting' = {}
  BY <1>1, <1>4 DEF Planned, Projecting
<1>6. lines \in Seq(Line) /\ Len(lines) \in Nat /\ DOMAIN lines = 1..Len(lines)
  BY <1>0 DEF TypeOK
<1>7. \A k \in 0..Len(lines) : ReadableAfter(k) = (k + 1)..Len(lines)
  BY <1>0, <1>6 DEF Kept, Settled, Whole, ReadableAfter, Readable
<1>8. CASE StartReplay
  <2>1. replayer'.mode = "wipe" /\ replayer'.todo = ReadableAfter(0) /\ graph' = graph
        /\ replayer.mode = "idle"
    BY <1>8 DEF StartReplay, Read, Replaying
  <2>2. 0 \in 0..Len(lines) /\ 0 + 1 = 1
    BY <1>6
  <2>3. AllToDo'
    BY <1>1, <1>7, <2>1, <2>2 DEF AllToDo
  <2>4. Midway => Midway'
    BY <1>1, <1>5, <2>1 DEF Midway
  <2> QED
    BY <1>0, <1>2, <1>5, <2>3, <2>4 DEF Kept
<1>9. CASE Wipe
  <2>1. /\ replayer.mode = "wipe" /\ replayer'.mode = "apply"
        /\ replayer'.todo = replayer.todo /\ graph' = EmptyGraph
    BY <1>0, <1>9 DEF Wipe, TypeOK, Replayer
  <2>2. replayer'.todo = (0 + 1)..Len(lines') /\ 0 \in 0..Len(lines')
    BY <1>0, <1>1, <1>6, <2>1 DEF Kept, AllToDo
  <2>3. graph' = Rebuilt(lines', 0)
    BY <1>1, <1>6, <2>1, RebuiltSteps
  <2>4. Midway'
    BY <1>5, <2>2, <2>3 DEF Midway
  <2> QED
    BY <1>2, <1>5, <2>1, <2>4 DEF Kept, AllToDo
<1>10. CASE StartSync
  <2>1. Sync /\ replayer'.mode = "apply"
    BY <1>10 DEF StartSync, Read
  <2> QED
    BY <1>2, <1>5, <2>1 DEF Kept, AllToDo
<1>11. CASE ApplyNext
  <2>1. PICK i \in replayer.todo :
          /\ \A j \in replayer.todo : i <= j
          /\ graph' = ApplyEvent(graph, lines[i].ev)
          /\ replayer' = [replayer EXCEPT !.todo = @ \ {i}]
    BY <1>11 DEF ApplyNext
  <2>2. /\ replayer.mode = "apply" /\ replayer'.mode = "apply"
        /\ replayer'.todo = replayer.todo \ {i}
    BY <1>0, <1>11, <2>1 DEF ApplyNext, TypeOK, Replayer
  <2>3. ASSUME Midway PROVE Midway'
    <3>1. PICK k \in 0..Len(lines) :
            graph = Rebuilt(lines, k) /\ replayer.todo = (k + 1)..Len(lines)
      BY <2>2, <2>3 DEF Midway
    <3>2. i = k + 1 /\ k # Len(lines)
      <4>1. i \in (k + 1)..Len(lines) /\ k \in Nat
        BY <1>6, <2>1, <3>1
      <4>2. k + 1 \in (k + 1)..Len(lines)
        BY <1>6, <4>1
      <4>3. i <= k + 1
        BY <2>1, <3>1, <4>2
      <4>4. i \in Nat /\ k + 1 <= i /\ i <= Len(lines)
        BY <1>6, <4>1
      <4>5. i = k + 1
        BY <4>1, <4>3, <4>4
      <4>6. \A n \in Nat : k + 1 <= n => k # n
        BY <4>1
      <4>7. k # Len(lines)
        BY <1>6, <4>4, <4>5, <4>6
      <4> QED
        BY <4>5, <4>7
    <3>3. /\ k + 1 \in 0..Len(lines)
          /\ Rebuilt(lines, k + 1) = ApplyEvent(Rebuilt(lines, k), lines[k + 1].ev)
      BY <1>0, <3>2, NextLine DEF Kept, Settled
    <3>4. replayer'.todo = ((k + 1) + 1)..Len(lines')
      <4>1. replayer'.todo = ((k + 1)..Len(lines)) \ {k + 1}
        BY <2>2, <3>1, <3>2
      <4>2. k \in Nat
        BY <1>6
      <4>3. ((k + 1)..Len(lines)) \ {k + 1} = ((k + 1) + 1)..Len(lines)
        BY <1>6, <4>2
      <4> QED
        BY <1>1, <4>1, <4>3
    <3>5. graph' = Rebuilt(lines', k + 1) /\ k + 1 \in 0..Len(lines')
      BY <1>1, <2>1, <3>1, <3>2, <3>3
    <3> QED
      BY <1>5, <3>4, <3>5 DEF Midway
  <2> QED
    BY <1>0, <1>2, <1>5, <2>2, <2>3 DEF Kept, AllToDo
<1>12. CASE FinishReplay \/ CrashReplay
  <2>1. replayer'.mode = "idle" /\ graph' = graph
    BY <1>12 DEF FinishReplay, CrashReplay, NoReplay
  <2>2. Midway => Midway'
    BY <1>1, <1>5, <2>1 DEF Midway
  <2> QED
    BY <1>0, <1>2, <1>5, <2>1, <2>2 DEF Kept, AllToDo
<1> QED
  BY <1>8, <1>9, <1>10, <1>11, <1>12

LEMMA SerialStep == SerialInv /\ [SerialNext]_vars => SerialInv'
<1>1. ASSUME SerialInv, SerialNext PROVE SerialInv'
  <2>0. TypeOK /\ DriftInv /\ Alone
    BY <1>1, SerialIsKept
  <2>1. Next /\ RebuildFirst /\ torn' = torn
    BY <1>1 DEF SerialNext
  <2>2. DriftInv'
    BY <2>0, <2>1, DriftStep
  <2>3. Alone'
    BY <1>1, <2>0, AloneStep
  <2>4. ASSUME NEW w \in Writer PROVE ~TornAppend(w)
    <3>1. torn \in Nat
      BY <2>0 DEF TypeOK
    <3> QED
      BY <2>1, <3>1 DEF TornAppend
  <2>5. Kept'
    BY <1>1, <2>1, <2>3, <2>4, SerialPlan, SerialAppend, SerialProject, SerialCrash,
       SerialReplay DEF Next
  <2>6. SerialInv' <=> DriftInv' /\ Alone' /\ Kept'
    BY DEF SerialInv, Kept, Settled
  <2> QED
    BY <2>2, <2>3, <2>5, <2>6
<1>2. ASSUME SerialInv, UNCHANGED vars PROVE SerialInv'
  <2>0. TypeOK /\ DriftInv /\ Alone /\ Kept
    BY <1>2, SerialIsKept
  <2>1. DriftInv'
    BY <1>2, <2>0, DriftStep
  <2>2. Settled' /\ LogView' = LogView
    BY <1>2, <2>0, SameLog DEF vars, Kept
  <2>3. Active' = Active /\ Projecting' = Projecting
    BY <1>2 DEF vars, Active, Projecting, Replaying
  <2>4. Alone'
    BY <2>0, <2>3 DEF Alone
  <2>5. Planned' /\ AllToDo'
    BY <1>2, <2>0, <2>2 DEF vars, Kept, Planned, AllToDo
  <2>6. Midway => Midway'
    BY <1>2, <2>3 DEF vars, Midway, Rest
  <2> QED
    BY <2>0, <2>1, <2>2, <2>4, <2>5, <2>6 DEF Kept, Settled, SerialInv
<1> QED
  BY <1>1, <1>2

THEOREM SerialInvariant == SerialSpec => []SerialInv
<1> QED
  BY SerialInit, SerialStep, PTL DEF SerialSpec

(* In the log every transition starts where the one before it ended and is *)
(* one the machine allows, whatever was planned, crashed and rebuilt       *)
(* (core/artifacts.py:plan_state_change, transition_task).                 *)
THEOREM LogStaysLegal == SerialSpec => []LogIsLegal
<1>1. SerialInv => LogIsLegal
  <2> SUFFICES ASSUME SerialInv PROVE LogIsLegal
    OBVIOUS
  <2>1. TypeOK /\ Booked
    BY SerialIsKept DEF SerialInv
  <2>2. Len(lines) \in 0..Len(lines)
    BY <2>1 DEF TypeOK
  <2> QED
    BY <2>1, <2>2 DEF Booked, LogView, Ledger, LogIsLegal
<1> QED
  BY <1>1, SerialInvariant, PTL

(* `precedes` stays acyclic, over single links, chains and removals        *)
(* (core/precedence.py:validate_precedes_write, add_chain).                *)
THEOREM PrecedesStaysAcyclic == SerialSpec => []PrecedesAcyclic
<1>1. SerialInv => PrecedesAcyclic
  <2> SUFFICES ASSUME SerialInv PROVE PrecedesAcyclic
    OBVIOUS
  <2>1. TypeOK /\ Booked
    BY SerialIsKept DEF SerialInv
  <2>2. Len(lines) \in 0..Len(lines)
    BY <2>1 DEF TypeOK
  <2>3. NoWayBack(PrecedesPairs(Replay(LogView)))
    BY <2>1, <2>2 DEF Booked, LogView, Rebuilt, Ledger, PairsAcyclic
  <2> QED
    BY <2>3, NoCycleNoWayBack DEF PrecedesAcyclic
<1> QED
  BY <1>1, SerialInvariant, PTL

(* A task has a block reason exactly while it is blocked, and a terminal   *)
(* reason exactly when it was withdrawn or superseded                      *)
(* (core/artifacts.py:plan_task_transition, set_block_reason).             *)
THEOREM ReasonsStayMatched == SerialSpec => []ReasonsMatchState
<1>1. SerialInv => ReasonsMatchState
  <2> SUFFICES ASSUME SerialInv, Active = {}, ~drift PROVE ReasonsMatch(graph)
    BY DEF ReasonsMatchState
  <2>1. graph = Replay(LogView)
    BY SettledIsReplay DEF SerialInv, GraphIsSettled, SettledGraph
  <2> QED
    BY <2>1 DEF SerialInv, Reasoned
<1> QED
  BY <1>1, SerialInvariant, PTL

(* Without a sync, no id ever has two nodes and no relationship lacks one  *)
(* of its ends, in the middle of a projection or of a rebuild, before and  *)
(* after a crash (graph.create_artifact is a bare CREATE).                 *)
THEOREM NodesStaySingle ==
  ASSUME ~Sync
  PROVE  SerialSpec => []OneNodePerId
<1>1. SerialInv => OneNodePerId
  <2> SUFFICES ASSUME SerialInv PROVE OneNodePerId
    OBVIOUS
  <2>1. Booked /\ Midway
    BY DEF SerialInv
  <2> QED
    BY <2>1 DEF Booked, Midway, Ledger, OneNodePerId
<1> QED
  BY <1>1, SerialInvariant, PTL

(* Every command takes effect as a whole or not at all, computed from the  *)
(* graph of everything before it (core/artifacts.py:commit_writes): the    *)
(* append is the step at which it does, and no other step is seen.         *)
LEMMA CommandIsOneStep ==
  SerialInv /\ SerialInv' /\ [SerialNext]_vars => [Store!AtomicNext]_(Store!atomicVars)
<1> SUFFICES ASSUME SerialInv, SerialInv', [SerialNext]_vars
             PROVE  Store!AtomicNext \/ (LogView' = LogView /\ SettledGraph' = SettledGraph)
  BY DEF Store!atomicVars
<1>1. SettledGraph = Replay(LogView)
  BY SettledIsReplay DEF SerialInv, GraphIsSettled
<1>2. SettledGraph' = Replay(LogView)'
  <2>1. DriftInv' => GraphIsSettled'
    BY SettledIsReplay, PTL
  <2> QED
    BY <2>1 DEF SerialInv, GraphIsSettled
<1>3. CASE \E w \in Writer : AppendEvents(w)
  <2>1. PICK w \in Writer : AppendEvents(w)
    BY <1>3
  <2>2. /\ LogView' = LogView \o plan[w]
        /\ Replay(LogView)' = ApplyAll(Replay(LogView), plan[w])
        /\ plan[w] \in Commands(Replay(LogView), Fresh(LogView), w)
        /\ plan[w] \in Seq(Event) /\ plan[w] # <<>>
    BY <2>1, WholeCommand
  <2>3. LogView' # LogView
    <3>1. LogView \in Seq(Event)
      <4>1. lines \in Seq(Line) /\ Len(lines) \in 0..Len(lines)
        BY SerialIsKept DEF TypeOK
      <4> QED
        BY <4>1, ReadToIsEvents DEF LogView
    <3>2. Len(LogView \o plan[w]) = Len(LogView) + Len(plan[w]) /\ Len(plan[w]) # 0
      BY <2>2, <3>1
    <3>3. Len(LogView \o plan[w]) # Len(LogView)
      BY <2>2, <3>1, <3>2
    <3> QED
      BY <2>2, <3>3
  <2>4. w \in Actor
    BY EventStoreAssumption
  <2>5. Store!Commit(w)
    BY <1>1, <1>2, <2>2, <2>3 DEF Store!Commit
  <2> QED
    BY <2>4, <2>5 DEF Store!AtomicNext
<1>4. CASE ~\E w \in Writer : AppendEvents(w)
  <2>1. lines' = lines
    <3>1. ASSUME NEW w \in Writer, SerialNext PROVE ~TornAppend(w)
      <4>1. torn \in Nat
        BY SerialIsKept DEF TypeOK
      <4> QED
        BY <3>1, <4>1 DEF SerialNext, TornAppend
    <3> QED
      BY <1>4, <3>1 DEF SerialNext, vars, Next, Plan, ProjectOne, Crash, StartReplay, Wipe,
         StartSync, ApplyNext, FinishReplay, CrashReplay
  <2>2. LogView' = LogView /\ Replay(LogView)' = Replay(LogView)
    BY <2>1 DEF LogView
  <2> QED
    BY <1>1, <1>2, <2>2
<1> QED
  BY <1>3, <1>4

THEOREM CommandsStayAtomic == SerialSpec => CommandsAreAtomic
<1>1. Init => Store!InitAtomic
  <2> SUFFICES ASSUME Init PROVE LogView = <<>> /\ SettledGraph = EmptyGraph
    BY DEF Store!InitAtomic
  <2>1. lines = <<>> /\ lines \in Seq(Line) /\ Len(lines) = 0
    BY DEF Init
  <2>2. LogView = <<>>
    BY <2>1, ReadToSteps DEF LogView
  <2>3. Active = {}
    BY DEF Init, Active, Replaying, NoReplay
  <2> QED
    BY <2>2, <2>3 DEF Init, SettledGraph
<1> QED
  BY <1>1, SerialInvariant, CommandIsOneStep, PTL
  DEF SerialSpec, CommandsAreAtomic, Store!AtomicSpec
=============================================================================
