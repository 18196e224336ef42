-------------------------- MODULE TranscriptProofs --------------------------
(***************************************************************************)
(* Proofs about what the Ratatui frontend keeps of its screen.  About      *)
(* Transcript, for any limit, any calls and any number of runs: the order  *)
(* of a run's events, which it is made of, that what is on the screen is   *)
(* what the runs have done, and that the selection stays where the user    *)
(* put it.  About InputEditor, which is composed with nothing here: that   *)
(* the cursor is placed, that edits stay local and that the draft is kept. *)
(***************************************************************************)
EXTENDS Transcript, InputEditor, Integers, FiniteSets, FiniteSetTheorems, SequenceTheorems,
        WellFoundedInduction, TLAPS

-----------------------------------------------------------------------------
(***************************************************************************)
(* The events of one run, of which the transcript is made: the properties  *)
(* of RunContract, for any set of calls and any number of events, by an    *)
(* inductive invariant that relates the phase of the run to the end of its *)
(* log.                                                                    *)
(***************************************************************************)

(* The strengthening: the log is empty until RunStarted, the call that is  *)
(* open is the one the last event speaks of, and no call is open when the  *)
(* run is over.                                                            *)
EventIs(kinds) == log # <<>> /\ log[Len(log)].kind \in kinds

LogFollowsPhase ==
  /\ phase \in {"Ready", "Allocated"} => log = <<>> /\ open = {}
  /\ phase \in {"Running", "Ended"} => log # <<>>
  /\ phase = "Ended" => open = {}
  /\ \A c \in Calls :
       open = {c} => EventIs({"ToolStarted", "ToolOutput"}) /\ log[Len(log)].call = c

OrderInv ==
  /\ TypeOK
  /\ LogFollowsPhase
  /\ OneTerminal
  /\ ErrIffFailed
  /\ StartedFirst
  /\ OutputInsideTool

(* Every event that is appended is an event. *)
LEMMA EventsAreEvents ==
  ASSUME NEW c \in Calls
  PROVE  /\ \A k \in PlainKinds : Plain(k) \in Event
         /\ \A k \in ToolKinds : Tool(k, c) \in Event
  BY DEF Event, Plain, Tool

LEMMA PlainIsEvent == \A k \in PlainKinds : Plain(k) \in Event
  BY DEF Event, Plain

(* Appending keeps what was there and adds one at the end. *)
LEMMA AppendFacts ==
  ASSUME NEW S, NEW s \in Seq(S), NEW e \in S
  PROVE  /\ Append(s, e) \in Seq(S)
         /\ Append(s, e) # <<>>
         /\ Len(Append(s, e)) = Len(s) + 1
         /\ DOMAIN Append(s, e) = 1 .. Len(s) + 1
         /\ Append(s, e)[Len(s) + 1] = e
         /\ \A i \in 1 .. Len(s) : Append(s, e)[i] = s[i]
         /\ DOMAIN s = 1 .. Len(s)
         /\ Len(s) \in Nat
         /\ (s = <<>>) <=> (Len(s) = 0)
  OBVIOUS

LEMMA InitOrder == Init => OrderInv
<1> SUFFICES ASSUME Init PROVE OrderInv
  OBVIOUS
<1>1. TypeOK
  <2>1. log \in Seq(Event)
    BY DEF Init
  <2>2. open \in SUBSET Calls
    BY Zenon DEF Init
  <2> QED
    BY <2>1, <2>2 DEF Init, TypeOK
<1>2. DOMAIN log = {}
  BY DEF Init
<1> QED
  BY <1>1, <1>2 DEF Init, OrderInv, LogFollowsPhase, OneTerminal, ErrIffFailed,
                    StartedFirst, OutputInsideTool

-----------------------------------------------------------------------------
(* A step that appends an event e to the log of a running run, given what  *)
(* e is and what becomes of phase and open.                                *)
LEMMA OrderKept ==
  ASSUME OrderInv, phase = "Running",
         NEW e \in Event,
         log' = Append(log, e),
         e.kind # "RunStarted",
         TypeOK', open' = {} \/ e.kind \in {"ToolStarted", "ToolOutput"},
         \A c \in Calls : open' = {c} => e.kind \in {"ToolStarted", "ToolOutput"} /\ e.call = c,
         phase' = IF IsTerminal(e) THEN "Ended" ELSE "Running",
         IsTerminal(e) => open' = {} /\ ((result' = "Err") <=> (e.kind = "RunFailed")),
         e.kind \in {"ToolOutput", "ToolFinished"} => open = {e.call} /\ e.call \in Calls
  PROVE  OrderInv'
<1> USE DEF IsTerminal, TerminalKinds
<1>1. /\ log \in Seq(Event)
      /\ log # <<>>
  BY DEF OrderInv, TypeOK, LogFollowsPhase
<1> DEFINE n == Len(log)
<1>2. /\ DOMAIN log' = 1 .. n + 1 /\ Len(log') = n + 1
      /\ log'[n + 1] = e
      /\ \A i \in 1 .. n : log'[i] = log[i]
      /\ DOMAIN log = 1 .. n /\ n \in Nat /\ n > 0
      /\ log' # <<>>
  BY <1>1, AppendFacts
<1> HIDE DEF n
<1>3. \A i \in 1 .. n : ~IsTerminal(log[i])
  BY <1>1, <1>2 DEF OrderInv, OneTerminal, n
<1>4. LogFollowsPhase'
  <2>1. EventIs({"ToolStarted", "ToolOutput"})' <=> e.kind \in {"ToolStarted", "ToolOutput"}
    BY <1>2 DEF EventIs
  <2> QED
    BY <2>1, <1>2 DEF LogFollowsPhase
<1>5. OneTerminal'
  BY <1>2, <1>3 DEF OneTerminal
<1>6. ErrIffFailed'
  BY <1>2 DEF ErrIffFailed
<1>7. StartedFirst'
  BY <1>1, <1>2 DEF OrderInv, StartedFirst
<1>8. OutputInsideTool'
  <2> SUFFICES ASSUME NEW i \in DOMAIN log', log'[i].kind \in {"ToolOutput", "ToolFinished"}
               PROVE  /\ i > 1
                      /\ log'[i-1].kind \in {"ToolStarted", "ToolOutput"}
                      /\ log'[i-1].call = log'[i].call
    BY DEF OutputInsideTool
  <2>1. CASE i \in 1 .. n
    <3>1. log'[i] = log[i]
      BY <1>2, <2>1
    <3>2. i > 1 /\ log[i-1].kind \in {"ToolStarted", "ToolOutput"} /\ log[i-1].call = log[i].call
      BY <1>2, <2>1, <3>1 DEF OrderInv, OutputInsideTool
    <3>3. log'[i-1] = log[i-1]
      BY <1>2, <2>1, <3>2
    <3> QED
      BY <3>1, <3>2, <3>3
  <2>2. CASE i = n + 1
    <3>1. open = {e.call} /\ e.call \in Calls
      BY <1>2, <2>2
    <3>2. log[n].kind \in {"ToolStarted", "ToolOutput"} /\ log[n].call = e.call
      BY <3>1 DEF OrderInv, LogFollowsPhase, EventIs, n
    <3>3. i - 1 = n /\ log'[n] = log[n] /\ i > 1
      BY <1>2, <2>2
    <3> QED
      BY <1>2, <2>2, <3>2, <3>3
  <2> QED
    BY <1>2, <2>1, <2>2
<1> QED
  BY <1>4, <1>5, <1>6, <1>7, <1>8 DEF OrderInv

LEMMA StepOrder == OrderInv /\ [Next]_vars => OrderInv'
<1> SUFFICES ASSUME OrderInv, [Next]_vars PROVE OrderInv'
  OBVIOUS
<1> USE DEF PlainKinds, ToolKinds, TerminalKinds
<1>t. TypeOK
  BY DEF OrderInv
<1>1. CASE Allocate
  <2>1. log' = <<>> /\ DOMAIN log' = {} /\ log' \in Seq(Event)
    BY <1>1 DEF Allocate
  <2>2. TypeOK'
    BY <1>1, <1>t, <2>1 DEF Allocate, TypeOK
  <2>3. open = {}
    BY <1>1 DEF Allocate, OrderInv, LogFollowsPhase
  <2> QED
    BY <1>1, <2>1, <2>2, <2>3 DEF Allocate, OrderInv, LogFollowsPhase, OneTerminal,
         ErrIffFailed, StartedFirst, OutputInsideTool
<1>2. CASE Cancel
  BY <1>2 DEF Cancel, OrderInv, TypeOK, LogFollowsPhase, EventIs, OneTerminal,
              ErrIffFailed, StartedFirst, OutputInsideTool
<1>3. CASE EmitRunStarted
  <2>1. log = <<>> /\ open = {} /\ open' = {} /\ phase' = "Running"
    BY <1>3 DEF EmitRunStarted, OrderInv, LogFollowsPhase
  <2>2. /\ log' = <<Plain("RunStarted")>> /\ log'[1].kind = "RunStarted"
        /\ DOMAIN log' = {1} /\ Len(log') = 1 /\ log' # <<>>
    BY <1>3, <2>1 DEF EmitRunStarted, Plain
  <2>3. log' \in Seq(Event)
    BY <2>2, PlainIsEvent
  <2>4. TypeOK'
    BY <1>3, <1>t, <2>3 DEF EmitRunStarted, TypeOK
  <2>5. LogFollowsPhase' /\ StartedFirst' /\ OutputInsideTool' /\ ErrIffFailed'
    BY <2>1, <2>2 DEF LogFollowsPhase, StartedFirst, OutputInsideTool, ErrIffFailed
  <2>6. OneTerminal'
    BY <2>1, <2>2 DEF OneTerminal, IsTerminal
  <2> QED
    BY <2>4, <2>5, <2>6 DEF OrderInv
<1>4. ASSUME NEW k \in {"TextDelta", "ProviderError"}, EmitProgress(k)
      PROVE  OrderInv'
  <2>1. /\ Plain(k) \in Event /\ Plain(k).kind = k
    BY PlainIsEvent DEF Plain
  <2>2. /\ phase = "Running" /\ phase' = "Running" /\ open' = {} /\ log' = Append(log, Plain(k))
    BY <1>4 DEF EmitProgress, Running
  <2>3. TypeOK'
    BY <1>4, <1>t, <2>1 DEF EmitProgress, TypeOK
  <2> QED
    BY <2>1, <2>2, <2>3, OrderKept DEF IsTerminal
<1>5. ASSUME NEW c \in Calls, EmitToolStarted(c)
      PROVE  OrderInv'
  <2>1. /\ Tool("ToolStarted", c) \in Event
        /\ Tool("ToolStarted", c).kind = "ToolStarted" /\ Tool("ToolStarted", c).call = c
    BY EventsAreEvents DEF Tool
  <2>2. /\ phase = "Running" /\ phase' = "Running" /\ open' = {c}
        /\ log' = Append(log, Tool("ToolStarted", c))
    BY <1>5 DEF EmitToolStarted, Running
  <2>3. TypeOK'
    BY <1>5, <1>t, <2>1 DEF EmitToolStarted, TypeOK
  <2> QED
    BY <2>1, <2>2, <2>3, OrderKept DEF IsTerminal
<1>6. ASSUME NEW c \in Calls, EmitToolOutput(c)
      PROVE  OrderInv'
  <2>1. /\ Tool("ToolOutput", c) \in Event
        /\ Tool("ToolOutput", c).kind = "ToolOutput" /\ Tool("ToolOutput", c).call = c
    BY EventsAreEvents DEF Tool
  <2>2. /\ phase = "Running" /\ phase' = "Running" /\ open' = {c} /\ open = {c}
        /\ log' = Append(log, Tool("ToolOutput", c))
    BY <1>6 DEF EmitToolOutput, Running, InCall
  <2>3. TypeOK'
    BY <1>6, <1>t, <2>1 DEF EmitToolOutput, TypeOK
  <2> QED
    BY <2>1, <2>2, <2>3, OrderKept DEF IsTerminal
<1>7. ASSUME NEW c \in Calls, EmitToolFinished(c)
      PROVE  OrderInv'
  <2>1. /\ Tool("ToolFinished", c) \in Event
        /\ Tool("ToolFinished", c).kind = "ToolFinished" /\ Tool("ToolFinished", c).call = c
    BY EventsAreEvents DEF Tool
  <2>2. /\ phase = "Running" /\ phase' = "Running" /\ open' = {} /\ open = {c}
        /\ log' = Append(log, Tool("ToolFinished", c))
    BY <1>7 DEF EmitToolFinished, Running, InCall
  <2>3. TypeOK'
    BY <1>7, <1>t, <2>1 DEF EmitToolFinished, TypeOK
  <2> QED
    BY <2>1, <2>2, <2>3, OrderKept DEF IsTerminal
<1>8. ASSUME NEW kind \in TerminalKinds, NEW res \in {"Ok", "Err"}, End(kind, res),
             (res = "Err") <=> (kind = "RunFailed")
      PROVE  OrderInv'
  <2>1. /\ Plain(kind) \in Event /\ Plain(kind).kind = kind
    BY PlainIsEvent DEF Plain
  <2>2. /\ phase = "Running" /\ phase' = "Ended" /\ open' = {} /\ result' = res
        /\ log' = Append(log, Plain(kind))
    BY <1>8 DEF End, Running
  <2>3. TypeOK'
    BY <1>8, <1>t, <2>1 DEF End, TypeOK
  <2> QED
    BY <1>8, <2>1, <2>2, <2>3, OrderKept DEF IsTerminal
<1>9. CASE EmitRunFinished
  BY <1>8, <1>9 DEF EmitRunFinished
<1>10. CASE EmitRunAborted
  BY <1>8, <1>10 DEF EmitRunAborted
<1>11. CASE EmitRunFailed
  BY <1>8, <1>11 DEF EmitRunFailed
<1>12. CASE UNCHANGED vars
  BY <1>12 DEF vars, OrderInv, TypeOK, LogFollowsPhase, EventIs, OneTerminal,
               ErrIffFailed, StartedFirst, OutputInsideTool
<1> QED
  BY <1>1, <1>2, <1>3, <1>4, <1>5, <1>6, <1>7, <1>9, <1>10, <1>11, <1>12 DEF Next

-----------------------------------------------------------------------------
(* Every run, at any time: types, and the log follows the phase. *)
THEOREM ContractInvariant == Spec => []OrderInv
  BY InitOrder, StepOrder, PTL DEF Spec

(* A run emits at most one terminal event, as its last, and is over        *)
(* exactly then (Agent::run).                                              *)
THEOREM ContractOneTerminal == Spec => []OneTerminal
<1>1. OrderInv => OneTerminal
  BY DEF OrderInv
<1> QED
  BY <1>1, ContractInvariant, PTL

(* The future returns Err exactly for a run that was reported failed.      *)
THEOREM ContractErrIffFailed == Spec => []ErrIffFailed
<1>1. OrderInv => ErrIffFailed
  BY DEF OrderInv
<1> QED
  BY <1>1, ContractInvariant, PTL

(* RunStarted is the first event of every run, and only the first.         *)
THEOREM ContractStartedFirst == Spec => []StartedFirst
<1>1. OrderInv => StartedFirst
  BY DEF OrderInv
<1> QED
  BY <1>1, ContractInvariant, PTL

(* The strict order of AgentEvent: the three of them, and tools inside.    *)
THEOREM ContractStrictOrder == Spec => []StrictOrder
<1>1. OrderInv => StrictOrder
  BY DEF OrderInv, StrictOrder
<1> QED
  BY <1>1, ContractInvariant, PTL

(* Output of a tool call lies inside that call.                            *)
THEOREM ContractOutputInsideTool == Spec => []OutputInsideTool
<1>1. OrderInv => OutputInsideTool
  BY DEF OrderInv
<1> QED
  BY <1>1, ContractInvariant, PTL

-----------------------------------------------------------------------------
(* What a transcript is. *)

Indexes     == UNION {[S -> Nat] : S \in SUBSET Calls}
Transcripts == [blocks : Seq(Block), index : Indexes, selected : Nat]

(* Every position kept in a transcript is one of its blocks. *)
Placed(t) ==
  /\ t \in Transcripts
  /\ \A c \in DOMAIN t.index : t.index[c] \in DOMAIN t.blocks
  /\ t.selected \in {0} \cup DOMAIN t.blocks

(* The blocks are numbered in their order, and each is of one run. *)
Numbered(t, p) ==
  /\ \A i \in DOMAIN t.blocks : t.blocks[i].number \in 1 .. p
  /\ \A i, j \in DOMAIN t.blocks : i < j => t.blocks[i].number < t.blocks[j].number

OfOneRun(t) == \A i \in DOMAIN t.blocks : \E r \in Nat : t.blocks[i].from = {r}

(* u is t with its first n blocks dropped. *)
Dropped(t, u, n) ==
  /\ Placed(u)
  /\ n \in 0 .. Len(t.blocks) - 1
  /\ Len(u.blocks) = Len(t.blocks) - n
  /\ \A i \in 1 .. Len(u.blocks) : u.blocks[i] = t.blocks[i + n]
  /\ \A c \in DOMAIN t.index : t.index[c] > n => c \in DOMAIN u.index /\ u.index[c] = t.index[c] - n
  /\ u.selected = SelectionShifted(t.selected, n)

(* u is t with a block more at the end and the first n dropped. *)
Grown(t, u, b, n) ==
  /\ Placed(u)
  /\ n \in 0 .. Len(t.blocks)
  /\ Len(u.blocks) = Len(t.blocks) + 1 - n
  /\ \A i \in 1 .. Len(t.blocks) - n : u.blocks[i] = t.blocks[i + n]
  /\ u.blocks[Len(u.blocks)] = b
  /\ u.selected = SelectionShifted(t.selected, n)

Grows(t, u, b) == \E n \in 0 .. Len(t.blocks) : Grown(t, u, b, n)

-----------------------------------------------------------------------------
(* The limit. *)

LEMMA IndexTyped ==
  ASSUME NEW S, S \subseteq Calls, NEW f, f = [c \in S |-> f[c]], \A c \in S : f[c] \in Nat
  PROVE  f \in Indexes /\ DOMAIN f = S
<1>1. f \in [S -> Nat]
  OBVIOUS
<1> QED
  BY <1>1 DEF Indexes

LEMMA TranscriptParts ==
  ASSUME NEW t \in Transcripts
  PROVE  /\ t.blocks \in Seq(Block) /\ Len(t.blocks) \in Nat /\ DOMAIN t.blocks = 1 .. Len(t.blocks)
         /\ t.index \in Indexes /\ DOMAIN t.index \subseteq Calls
         /\ \A c \in DOMAIN t.index : t.index[c] \in Nat
         /\ t.selected \in Nat
<1>1. t.blocks \in Seq(Block) /\ t.index \in Indexes /\ t.selected \in Nat
  BY DEF Transcripts
<1>2. PICK S \in SUBSET Calls : t.index \in [S -> Nat]
  BY <1>1 DEF Indexes
<1> QED
  BY <1>1, <1>2

LEMMA EnforceDrops ==
  ASSUME TranscriptAssumption, NEW t, Placed(t), Len(t.blocks) > 0
  PROVE  /\ \E n \in 0 .. Len(t.blocks) - 1 : Dropped(t, Enforce(t), n)
         /\ Len(Enforce(t).blocks) <= MaxBlocks
<1>t. /\ t \in Transcripts
      /\ \A c \in DOMAIN t.index : t.index[c] \in DOMAIN t.blocks
      /\ t.selected \in {0} \cup DOMAIN t.blocks
  BY DEF Placed
<1>p. /\ t.blocks \in Seq(Block) /\ Len(t.blocks) \in Nat /\ DOMAIN t.blocks = 1 .. Len(t.blocks)
      /\ t.index \in Indexes /\ DOMAIN t.index \subseteq Calls
      /\ \A c \in DOMAIN t.index : t.index[c] \in Nat
      /\ t.selected \in Nat
  BY <1>t, TranscriptParts
<1>m. MaxBlocks \in Nat /\ MaxBlocks > 0
  BY DEF TranscriptAssumption
<1>1. CASE Excess(t) <= 0
  <2>1. Enforce(t) = t
    BY <1>1 DEF Enforce
  <2>4. Len(t.blocks) <= MaxBlocks
    BY <1>1, <1>p, <1>m DEF Excess
  <2>2. SelectionShifted(t.selected, 0) = t.selected
    BY <1>p DEF SelectionShifted
  <2>3. Dropped(t, t, 0)
    BY <1>t, <1>p, <2>2 DEF Dropped
  <2> QED
    BY <1>p, <2>1, <2>3, <2>4
<1>2. CASE Excess(t) > 0
  <2>1. PICK n : n = Len(t.blocks) - MaxBlocks
    OBVIOUS
  <2>2. n \in 1 .. Len(t.blocks) - 1 /\ n = Excess(t)
    BY <1>2, <1>p, <1>m, <2>1 DEF Excess
  <2>3. PICK u : u = Enforce(t)
    OBVIOUS
  <2>4. u = [blocks |-> SubSeq(t.blocks, n + 1, Len(t.blocks)),
             index |-> IndexShifted(t.index, n), selected |-> SelectionShifted(t.selected, n)]
    BY <1>p, <2>2, <2>3 DEF Enforce
  <2>5. PICK bs : bs = SubSeq(t.blocks, n + 1, Len(t.blocks))
    OBVIOUS
  <2>6. /\ bs \in Seq(Block) /\ Len(bs) = MaxBlocks
        /\ \A i \in 1 .. MaxBlocks : bs[i] = t.blocks[i + n]
    <3>1. PICK k \in Nat : k = Len(t.blocks)
      BY <1>p
    <3>2. \A i \in n + 1 .. k : t.blocks[i] \in Block
      BY <1>p, <2>2, <3>1
    <3>3. n + 1 \in Int /\ n + 1 <= k /\ k - (n + 1) + 1 = MaxBlocks
      BY <1>m, <2>1, <2>2, <3>1
    <3>4. /\ SubSeq(t.blocks, n + 1, k) \in Seq(Block)
          /\ Len(SubSeq(t.blocks, n + 1, k)) = MaxBlocks
          /\ \A i \in 1 .. MaxBlocks : SubSeq(t.blocks, n + 1, k)[i] = t.blocks[n + 1 + i - 1]
      BY <3>2, <3>3, SubSeqProperties
    <3>5. \A i \in 1 .. MaxBlocks : n + 1 + i - 1 = i + n
      BY <1>m, <2>2
    <3> QED
      BY <2>5, <3>1, <3>4, <3>5
  <2>7. PICK f : f = IndexShifted(t.index, n)
    OBVIOUS
  <2>8. \A c \in DOMAIN t.index : Shifted(t.index[c], n) \in 1 .. MaxBlocks
    BY <1>t, <1>p, <1>m, <2>1, <2>2 DEF Shifted
  <2>9. /\ f = [c \in DOMAIN t.index |-> f[c]]
        /\ \A c \in DOMAIN t.index : f[c] = Shifted(t.index[c], n)
    <3>1. {d \in DOMAIN t.index : Shifted(t.index[d], n) <= MaxBlocks} = DOMAIN t.index
      BY <1>m, <2>8
    <3> QED
      BY <2>7, <3>1 DEF IndexShifted
  <2>10. \A c \in DOMAIN t.index : f[c] \in 1 .. MaxBlocks
    BY <2>8, <2>9
  <2>11. f \in Indexes /\ DOMAIN f = DOMAIN t.index
    <3>1. \A c \in DOMAIN t.index : f[c] \in Nat
      BY <1>m, <2>10
    <3>2. PICK D : D = DOMAIN t.index
      OBVIOUS
    <3>3. D \subseteq Calls /\ f = [c \in D |-> f[c]] /\ \A c \in D : f[c] \in Nat
      BY <1>p, <2>9, <3>1, <3>2
    <3>4. f \in Indexes /\ DOMAIN f = D
      BY <3>3, IndexTyped
    <3> QED
      BY <3>2, <3>4
  <2>12. PICK s : s = SelectionShifted(t.selected, n)
    OBVIOUS
  <2>13. s \in Nat /\ s \in {0} \cup (1 .. MaxBlocks)
    BY <1>t, <1>p, <1>m, <2>1, <2>2, <2>12 DEF SelectionShifted
  <2>14. u = [blocks |-> bs, index |-> f, selected |-> s]
    BY <2>4, <2>5, <2>7, <2>12
  <2>15. u \in Transcripts /\ u.blocks = bs /\ u.index = f /\ u.selected = s
    BY <2>6, <2>11, <2>13, <2>14 DEF Transcripts
  <2>16. DOMAIN bs = 1 .. MaxBlocks
    BY <2>6
  <2>17. Placed(u)
    BY <2>10, <2>11, <2>13, <2>15, <2>16 DEF Placed
  <2>18. \A c \in DOMAIN t.index : t.index[c] > n => c \in DOMAIN f /\ f[c] = t.index[c] - n
    BY <1>p, <2>9, <2>11 DEF Shifted
  <2>19. Len(u.blocks) = Len(t.blocks) - n
    BY <1>p, <1>m, <2>1, <2>6, <2>15
  <2>20. n \in 0 .. Len(t.blocks) - 1
    BY <1>p, <2>2
  <2>21. \A i \in 1 .. Len(u.blocks) : u.blocks[i] = t.blocks[i + n]
    BY <2>6, <2>15
  <2>22. Dropped(t, u, n)
    BY <2>12, <2>15, <2>17, <2>18, <2>19, <2>20, <2>21 DEF Dropped
  <2>23. Len(u.blocks) <= MaxBlocks
    BY <1>m, <2>6, <2>15
  <2> QED
    BY <2>3, <2>20, <2>22, <2>23
<1> QED
  BY <1>1, <1>2, <1>p, <1>m DEF Excess

-----------------------------------------------------------------------------
(* A block more. *)

LEMMA AddGrows ==
  ASSUME NEW t, Placed(t), NEW b \in Block
  PROVE  Grown(t, Add(t, b), b, 0)
<1>t. /\ t \in Transcripts
      /\ \A c \in DOMAIN t.index : t.index[c] \in DOMAIN t.blocks
      /\ t.selected \in {0} \cup DOMAIN t.blocks
  BY DEF Placed
<1>p. /\ t.blocks \in Seq(Block) /\ Len(t.blocks) \in Nat /\ DOMAIN t.blocks = 1 .. Len(t.blocks)
      /\ t.index \in Indexes /\ t.selected \in Nat
  BY <1>t, TranscriptParts
<1>1. PICK bs : bs = Append(t.blocks, b)
  OBVIOUS
<1>2. /\ bs \in Seq(Block) /\ Len(bs) = Len(t.blocks) + 1 /\ bs[Len(t.blocks) + 1] = b
      /\ \A i \in 1 .. Len(t.blocks) : bs[i] = t.blocks[i]
      /\ DOMAIN bs = 1 .. Len(t.blocks) + 1
  BY <1>p, <1>1
<1>3. PICK u : u = Add(t, b)
  OBVIOUS
<1>4. /\ u \in Transcripts /\ u.blocks = bs /\ u.index = t.index /\ u.selected = t.selected
  BY <1>t, <1>1, <1>2, <1>3 DEF Add, Transcripts
<1>5. Placed(u)
  BY <1>t, <1>p, <1>2, <1>4 DEF Placed
<1>6. SelectionShifted(t.selected, 0) = t.selected
  BY <1>p DEF SelectionShifted
<1>7. Grown(t, u, b, 0)
  BY <1>p, <1>2, <1>4, <1>5, <1>6 DEF Grown
<1> QED
  BY <1>3, <1>7

LEMMA IndexedPlaced ==
  ASSUME NEW t, Placed(t), Len(t.blocks) > 0, NEW c \in Calls
  PROVE  /\ Placed(Indexed(t, c)) /\ Indexed(t, c).blocks = t.blocks
         /\ Indexed(t, c).selected = t.selected
         /\ c \in DOMAIN Indexed(t, c).index /\ Indexed(t, c).index[c] = Len(t.blocks)
<1>t. /\ t \in Transcripts
      /\ \A d \in DOMAIN t.index : t.index[d] \in DOMAIN t.blocks
      /\ t.selected \in {0} \cup DOMAIN t.blocks
  BY DEF Placed
<1>p. /\ Len(t.blocks) \in Nat /\ DOMAIN t.blocks = 1 .. Len(t.blocks)
      /\ DOMAIN t.index \subseteq Calls /\ \A d \in DOMAIN t.index : t.index[d] \in Nat
  BY <1>t, TranscriptParts
<1>1. PICK D : D = DOMAIN t.index \cup {c}
  OBVIOUS
<1>2. PICK f : f = [d \in D |-> IF d = c THEN Len(t.blocks) ELSE t.index[d]]
  OBVIOUS
<1>3. /\ D \subseteq Calls /\ c \in D /\ f = [d \in D |-> f[d]] /\ f[c] = Len(t.blocks)
      /\ \A d \in D : f[d] \in Nat /\ f[d] \in DOMAIN t.blocks
  BY <1>t, <1>p, <1>1, <1>2
<1>4. f \in Indexes /\ DOMAIN f = D
  BY <1>3, IndexTyped
<1>5. PICK u : u = Indexed(t, c)
  OBVIOUS
<1>6. u \in Transcripts /\ u.blocks = t.blocks /\ u.index = f /\ u.selected = t.selected
  BY <1>t, <1>1, <1>2, <1>4, <1>5 DEF Indexed, Transcripts
<1>7. Placed(u)
  BY <1>t, <1>3, <1>4, <1>6 DEF Placed
<1> QED
  BY <1>3, <1>4, <1>5, <1>6, <1>7

LEMMA EnforceGrows ==
  ASSUME TranscriptAssumption, NEW t, Placed(t), NEW b, NEW v, Grown(t, v, b, 0)
  PROVE  /\ Grows(t, Enforce(v), b)
         /\ Len(Enforce(v).blocks) <= MaxBlocks
         /\ \A c \in DOMAIN v.index : v.index[c] = Len(v.blocks) =>
              c \in DOMAIN Enforce(v).index /\ Enforce(v).index[c] = Len(Enforce(v).blocks)
<1>p. Len(t.blocks) \in Nat /\ t.selected \in Nat
  BY TranscriptParts DEF Placed
<1>1. PICK k \in Nat : k = Len(t.blocks)
  BY <1>p
<1>2. /\ Placed(v) /\ Len(v.blocks) = k + 1
      /\ \A i \in 1 .. k : v.blocks[i] = t.blocks[i]
      /\ v.blocks[k + 1] = b
      /\ v.selected = SelectionShifted(t.selected, 0)
  BY <1>1 DEF Grown
<1>3. v.selected = t.selected
  BY <1>p, <1>2 DEF SelectionShifted
<1>4. Len(v.blocks) > 0
  BY <1>2
<1>5. PICK u : u = Enforce(v)
  OBVIOUS
<1>6. Len(u.blocks) <= MaxBlocks /\ \E n \in 0 .. Len(v.blocks) - 1 : Dropped(v, u, n)
  BY <1>2, <1>4, <1>5, EnforceDrops
<1>7. PICK n \in 0 .. k : Dropped(v, u, n)
  BY <1>2, <1>6
<1>8. /\ Placed(u) /\ Len(u.blocks) = k + 1 - n
      /\ \A i \in 1 .. k + 1 - n : u.blocks[i] = v.blocks[i + n]
      /\ \A c \in DOMAIN v.index :
           v.index[c] > n => c \in DOMAIN u.index /\ u.index[c] = v.index[c] - n
      /\ u.selected = SelectionShifted(t.selected, n)
  <2>1. /\ Placed(u) /\ Len(u.blocks) = Len(v.blocks) - n
        /\ \A i \in 1 .. Len(u.blocks) : u.blocks[i] = v.blocks[i + n]
        /\ \A c \in DOMAIN v.index :
             v.index[c] > n => c \in DOMAIN u.index /\ u.index[c] = v.index[c] - n
        /\ u.selected = SelectionShifted(v.selected, n)
    BY <1>7, Zenon DEF Dropped
  <2>2. Len(u.blocks) = k + 1 - n
    <3>1. Len(v.blocks) = k + 1 /\ Len(u.blocks) = Len(v.blocks) - n
      BY <1>2, <2>1, Zenon
    <3> QED
      BY <3>1
  <2> QED
    BY <1>3, <2>1, <2>2, Zenon
<1>9. \A i \in 1 .. k - n : u.blocks[i] = t.blocks[i + n]
  <2>1. \A i \in 1 .. k - n : i \in 1 .. k + 1 - n /\ i + n \in 1 .. k
    BY <1>7
  <2> QED
    BY <1>2, <1>8, <2>1
<1>10. u.blocks[Len(u.blocks)] = b
  <2>1. k + 1 - n \in 1 .. k + 1 - n /\ (k + 1 - n) + n = k + 1
    BY <1>7
  <2> QED
    BY <1>2, <1>8, <2>1
<1>11. Grown(t, u, b, n)
  BY <1>1, <1>7, <1>8, <1>9, <1>10 DEF Grown
<1>12. \A c \in DOMAIN v.index : v.index[c] = Len(v.blocks) =>
         c \in DOMAIN u.index /\ u.index[c] = Len(u.blocks)
  <2>1. SUFFICES ASSUME NEW c \in DOMAIN v.index, v.index[c] = Len(v.blocks)
                 PROVE  c \in DOMAIN u.index /\ u.index[c] = Len(u.blocks)
    OBVIOUS
  <2>2. k + 1 > n /\ v.index[c] = k + 1
    BY <1>2, <1>7, <2>1
  <2>3. c \in DOMAIN u.index /\ u.index[c] = v.index[c] - n
    <3>1. v.index[c] > n
      BY <2>2
    <3> QED
      BY <1>8, <3>1
  <2> QED
    BY <1>8, <2>2, <2>3
<1> QED
  BY <1>1, <1>5, <1>6, <1>7, <1>11, <1>12 DEF Grows

-----------------------------------------------------------------------------
(***************************************************************************)
(* What a step makes of a good transcript.                                 *)
(***************************************************************************)

(* The block that a delta would go on is of the run. *)
EndsWith(t, r) == Len(t.blocks) > 0 /\ t.blocks[Len(t.blocks)].from = {r}

(* The open calls have their blocks, and no other tool is said to run but  *)
(* in failed runs.                                                         *)
ToolsShown(t, r, calls, lost) ==
  /\ \A c \in calls :
       /\ c \in DOMAIN t.index
       /\ t.blocks[t.index[c]].kind = "Tool" /\ t.blocks[t.index[c]].call = c
       /\ t.blocks[t.index[c]].from = {r} /\ t.blocks[t.index[c]].state = "running"
  /\ \A i \in DOMAIN t.blocks : t.blocks[i].state = "running" =>
       \/ t.blocks[i].from \subseteq lost
       \/ /\ t.blocks[i].call \in calls /\ t.blocks[i].from = {r}
          /\ t.index[t.blocks[i].call] = i

Good(t, p) == Placed(t) /\ Numbered(t, p) /\ OfOneRun(t)

(* The limit is kept but for the messages of cancelled commands. *)
Fits(t, where) == Len(t.blocks) > MaxBlocks => where \in {"Ready", "Ended"} /\ LastIs(t, "System")

(* The selection is where it was, or gone with its block. *)
Stays(t, u) == Chosen(u) = IF Shows(u, Chosen(t)) THEN Chosen(t) ELSE 0

LEMMA PlacedParts ==
  ASSUME NEW t, Placed(t)
  PROVE  /\ Len(t.blocks) \in Nat /\ DOMAIN t.blocks = 1 .. Len(t.blocks)
         /\ t.blocks \in Seq(Block) /\ t.selected \in 0 .. Len(t.blocks)
         /\ t \in Transcripts /\ DOMAIN t.index \subseteq Calls
         /\ \A c \in DOMAIN t.index : t.index[c] \in 1 .. Len(t.blocks)
<1>t. /\ t \in Transcripts /\ t.selected \in {0} \cup DOMAIN t.blocks
      /\ \A c \in DOMAIN t.index : t.index[c] \in DOMAIN t.blocks
  BY DEF Placed
<1> QED
  BY <1>t, TranscriptParts

LEMMA Short ==
  ASSUME TranscriptAssumption, NEW t, Placed(t)
  PROVE  /\ Len(t.blocks) <= MaxBlocks => \A where : Fits(t, where)
         /\ \A where : /\ Fits(t, where) /\ where \in {"Allocated", "Running"}
                       => Len(t.blocks) <= MaxBlocks
<1>1. Len(t.blocks) \in Nat /\ MaxBlocks \in Nat
  BY PlacedParts DEF TranscriptAssumption
<1> QED
  BY <1>1 DEF Fits

(* The blocks of a running run's transcript may change in number, but not  *)
(* above the limit.                                                        *)
LEMMA ShortAsBefore ==
  ASSUME TranscriptAssumption, NEW t, Placed(t), NEW u, Placed(u),
         Len(u.blocks) = Len(t.blocks), NEW where, where \in {"Allocated", "Running"},
         Fits(t, where)
  PROVE  \A after : Fits(u, after)
<1>1. Len(t.blocks) <= MaxBlocks
  BY Short
<1>2. Len(u.blocks) <= MaxBlocks
  BY <1>1
<1> QED
  BY <1>2, Short

(* A block that is pushed, and the block of a tool that starts. *)
LEMMA PushGrows ==
  ASSUME TranscriptAssumption, NEW t, Placed(t), NEW b \in Block
  PROVE  Grows(t, Push(t, b), b) /\ \A where : Fits(Push(t, b), where)
<1>1. Grown(t, Add(t, b), b, 0)
  BY AddGrows
<1>2. Grows(t, Push(t, b), b) /\ Len(Push(t, b).blocks) <= MaxBlocks
  BY <1>1, EnforceGrows DEF Push
<1>3. Placed(Push(t, b))
  BY <1>2 DEF Grows, Grown
<1> QED
  BY <1>2, <1>3, Short

LEMMA StartGrows ==
  ASSUME TranscriptAssumption, NEW t, Placed(t), NEW b \in Block, NEW c \in Calls,
         NEW u, u = Enforce(Indexed(Add(t, b), c))
  PROVE  /\ Grows(t, u, b) /\ \A where : Fits(u, where)
         /\ c \in DOMAIN u.index /\ u.index[c] = Len(u.blocks)
<1>1. PICK a : a = Add(t, b)
  OBVIOUS
<1>2. Grown(t, a, b, 0)
  BY <1>1, AddGrows
<1>3. Len(t.blocks) \in Nat
  BY TranscriptParts DEF Placed
<1>4. Placed(a) /\ Len(a.blocks) = Len(t.blocks) + 1 /\ Len(a.blocks) > 0
  BY <1>2, <1>3 DEF Grown
<1>5. PICK v : v = Indexed(a, c)
  OBVIOUS
<1>6. /\ Placed(v) /\ v.blocks = a.blocks /\ v.selected = a.selected
      /\ c \in DOMAIN v.index /\ v.index[c] = Len(v.blocks)
  BY <1>4, <1>5, IndexedPlaced
<1>7. Grown(t, v, b, 0)
  BY <1>2, <1>6 DEF Grown
<1>8. u = Enforce(v)
  BY <1>1, <1>5
<1>9. /\ Grows(t, Enforce(v), b) /\ Len(Enforce(v).blocks) <= MaxBlocks
      /\ \A d \in DOMAIN v.index : v.index[d] = Len(v.blocks) =>
           d \in DOMAIN Enforce(v).index /\ Enforce(v).index[d] = Len(Enforce(v).blocks)
  BY <1>7, EnforceGrows
<1>10. Placed(u)
  BY <1>8, <1>9 DEF Grows, Grown
<1> QED
  BY <1>6, <1>8, <1>9, <1>10, Short

LEMMA GrownBlocks ==
  ASSUME NEW t, NEW p \in Nat, Good(t, p), NEW b, b.number = p + 1, NEW r \in Nat, b.from = {r},
         NEW u, NEW n \in 0 .. Len(t.blocks), Grown(t, u, b, n)
  PROVE  Good(u, p + 1) /\ EndsWith(u, r) /\ u.blocks[Len(u.blocks)].number = p + 1
<1>p. PICK k \in Nat : k = Len(t.blocks)
  BY PlacedParts DEF Good
<1>d. DOMAIN t.blocks = 1 .. k
  BY <1>p, PlacedParts DEF Good
<1>1. /\ Placed(u) /\ Len(u.blocks) = k + 1 - n /\ n \in 0 .. k
      /\ \A i \in 1 .. k - n : u.blocks[i] = t.blocks[i + n]
      /\ u.blocks[k + 1 - n] = b
  BY <1>p DEF Grown
<1>2. DOMAIN u.blocks = 1 .. k + 1 - n
  BY <1>1, PlacedParts
<1>3. \A i \in 1 .. k + 1 - n : i \in 1 .. k - n \/ i = k + 1 - n
  BY <1>1
<1>4. \A i \in 1 .. k - n : i + n \in 1 .. k
  BY <1>1
<1>5. /\ \A i \in 1 .. k : t.blocks[i].number \in 1 .. p
      /\ \A i, j \in 1 .. k : i < j => t.blocks[i].number < t.blocks[j].number
      /\ \A i \in 1 .. k : \E s \in Nat : t.blocks[i].from = {s}
  BY <1>d DEF Good, Numbered, OfOneRun
<1>6. \A i \in 1 .. k - n : u.blocks[i].number \in 1 .. p
  BY <1>1, <1>4, <1>5
<1>7. Numbered(u, p + 1)
  <2>1. \A i \in 1 .. k + 1 - n : u.blocks[i].number \in 1 .. p + 1
    BY <1>1, <1>3, <1>6
  <2>2. ASSUME NEW i \in 1 .. k + 1 - n, NEW j \in 1 .. k + 1 - n, i < j
        PROVE  u.blocks[i].number < u.blocks[j].number
    <3>1. i \in 1 .. k - n
      BY <1>1, <2>2
    <3>2. CASE j = k + 1 - n
      BY <1>1, <1>6, <3>1, <3>2
    <3>3. CASE j \in 1 .. k - n
      <4>1. i + n \in 1 .. k /\ j + n \in 1 .. k /\ i + n < j + n
        BY <1>1, <1>4, <2>2, <3>1, <3>3
      <4>2. u.blocks[i] = t.blocks[i + n] /\ u.blocks[j] = t.blocks[j + n]
        BY <1>1, <3>1, <3>3
      <4> QED
        BY <1>5, <4>1, <4>2
    <3> QED
      BY <1>3, <3>2, <3>3
  <2> QED
    BY <1>2, <2>1, <2>2 DEF Numbered
<1>8. OfOneRun(u)
  <2>1. ASSUME NEW i \in 1 .. k - n PROVE \E s \in Nat : u.blocks[i].from = {s}
    <3>1. i + n \in 1 .. k /\ u.blocks[i] = t.blocks[i + n]
      BY <1>1, <1>4
    <3>2. PICK s \in Nat : t.blocks[i + n].from = {s}
      BY <1>5, <3>1
    <3> QED
      BY <3>1, <3>2
  <2> QED
    BY <1>1, <1>2, <1>3, <2>1 DEF OfOneRun
<1>9. EndsWith(u, r)
  <2>1. k + 1 - n > 0
    BY <1>1
  <2> QED
    BY <1>1, <2>1 DEF EndsWith
<1> QED
  BY <1>1, <1>7, <1>8, <1>9 DEF Good

LEMMA GrownSelection ==
  ASSUME NEW t, NEW p \in Nat, Good(t, p), NEW b, b.number = p + 1,
         NEW u, NEW n \in 0 .. Len(t.blocks), Grown(t, u, b, n)
  PROVE  Stays(t, u)
<1>p. PICK k \in Nat : k = Len(t.blocks)
  BY PlacedParts DEF Good
<1>d. DOMAIN t.blocks = 1 .. k /\ t.selected \in 0 .. k
  BY <1>p, PlacedParts DEF Good
<1>1. /\ Placed(u) /\ Len(u.blocks) = k + 1 - n /\ n \in 0 .. k
      /\ \A i \in 1 .. k - n : u.blocks[i] = t.blocks[i + n]
      /\ u.blocks[k + 1 - n] = b
      /\ u.selected = SelectionShifted(t.selected, n)
  BY <1>p DEF Grown
<1>2. DOMAIN u.blocks = 1 .. k + 1 - n
  BY <1>1, PlacedParts
<1>3. \A i \in 1 .. k + 1 - n : i \in 1 .. k - n \/ i = k + 1 - n
  BY <1>1
<1>4. \A i \in 1 .. k - n : i + n \in 1 .. k
  BY <1>1
<1>5. /\ \A i \in 1 .. k : t.blocks[i].number \in 1 .. p
      /\ \A i, j \in 1 .. k : i < j => t.blocks[i].number < t.blocks[j].number
  BY <1>d DEF Good, Numbered
<1>6. CASE t.selected > n
  <2>1. PICK i \in 1 .. k - n : i = t.selected - n
    BY <1>1, <1>d, <1>6
  <2>2. u.selected = i /\ t.selected = i + n /\ i # 0 /\ i + n # 0
    <3>1. PICK m \in 0 .. k : m = t.selected
      BY <1>d
    <3>2. i = m - n /\ m > n /\ n \in Nat
      BY <1>1, <1>6, <2>1, <3>1
    <3>3. SelectionShifted(m, n) = m - n
      BY <3>2 DEF SelectionShifted
    <3>4. m = i + n /\ i # 0 /\ i + n # 0
      BY <3>1, <3>2
    <3> QED
      BY <1>1, <3>1, <3>2, <3>3, <3>4
  <2>3. Chosen(u) = u.blocks[i].number /\ Chosen(t) = t.blocks[i + n].number
    BY <2>2 DEF Chosen
  <2>4. Chosen(u) = Chosen(t)
    BY <1>1, <2>1, <2>3
  <2>5. i \in 1 .. k + 1 - n
    BY <1>1, <2>1
  <2>6. Shows(u, Chosen(t))
    BY <1>2, <2>3, <2>4, <2>5 DEF Shows
  <2> QED
    BY <2>4, <2>6 DEF Stays
<1>7. CASE ~(t.selected > n)
  <2>1. u.selected = 0
    BY <1>1, <1>7 DEF SelectionShifted
  <2>2. Chosen(u) = 0
    BY <2>1 DEF Chosen
  <2>3. Chosen(t) # p + 1 /\ \A i \in 1 .. k - n : t.blocks[i + n].number # Chosen(t)
    <3>1. CASE t.selected = 0
      <4>1. Chosen(t) = 0
        BY <3>1 DEF Chosen
      <4>2. \A i \in 1 .. k : t.blocks[i].number # 0
        BY <1>5
      <4> QED
        BY <1>4, <4>1, <4>2
    <3>2. CASE t.selected # 0
      <4>1. t.selected \in 1 .. k /\ t.selected <= n
        BY <1>1, <1>d, <1>7, <3>2
      <4>2. PICK s \in 1 .. k : s = t.selected
        BY <4>1
      <4>3. Chosen(t) = t.blocks[s].number
        BY <3>2, <4>2 DEF Chosen
      <4>4. t.blocks[s].number \in 1 .. p
        BY <1>5
      <4>5. \A i \in 1 .. k - n : s < i + n
        BY <1>1, <4>1, <4>2
      <4>6. \A i \in 1 .. k - n : t.blocks[s].number < t.blocks[i + n].number /\ t.blocks[i + n].number \in 1 .. p
        BY <1>4, <1>5, <4>5
      <4>7. \A i \in 1 .. k - n : t.blocks[i + n].number # t.blocks[s].number
        BY <4>4, <4>6
      <4> QED
        BY <4>3, <4>4, <4>7
    <3> QED
      BY <3>1, <3>2
  <2>4. ~Shows(u, Chosen(t))
    BY <1>1, <1>2, <1>3, <2>3 DEF Shows
  <2> QED
    BY <2>2, <2>4 DEF Stays
<1> QED
  BY <1>6, <1>7

(* No call is open when a block is added; the block may open one. *)
LEMMA GrownTools ==
  ASSUME NEW t, Placed(t), NEW q, NEW lost, ToolsShown(t, q, {}, lost),
         NEW kept, lost \subseteq kept, NEW r,
         NEW b, NEW u, NEW n \in 0 .. Len(t.blocks), Grown(t, u, b, n)
  PROVE  /\ b.state # "running" => ToolsShown(u, r, {}, kept)
         /\ \A c : /\ b.kind = "Tool" /\ b.call = c /\ b.from = {r} /\ b.state = "running"
                   /\ c \in DOMAIN u.index /\ u.index[c] = Len(u.blocks)
                   => ToolsShown(u, r, {c}, kept)
<1>p. PICK k \in Nat : k = Len(t.blocks)
  BY PlacedParts
<1>d. DOMAIN t.blocks = 1 .. k
  BY <1>p, PlacedParts
<1>1. /\ Placed(u) /\ Len(u.blocks) = k + 1 - n /\ n \in 0 .. k
      /\ \A i \in 1 .. k - n : u.blocks[i] = t.blocks[i + n]
      /\ u.blocks[k + 1 - n] = b
  BY <1>p DEF Grown
<1>2. DOMAIN u.blocks = 1 .. k + 1 - n
  BY <1>1, PlacedParts
<1>3. \A i \in 1 .. k + 1 - n : i \in 1 .. k - n \/ i = k + 1 - n
  BY <1>1
<1>4. \A i \in 1 .. k - n : i + n \in 1 .. k
  BY <1>1
<1>5. \A i \in 1 .. k : t.blocks[i].state = "running" => t.blocks[i].from \subseteq kept
  BY <1>d DEF ToolsShown
<1>6. \A i \in 1 .. k - n : u.blocks[i].state = "running" => u.blocks[i].from \subseteq kept
  BY <1>1, <1>4, <1>5
<1>7. b.state # "running" => ToolsShown(u, r, {}, kept)
  BY <1>1, <1>2, <1>3, <1>6 DEF ToolsShown
<1>8. ASSUME NEW c, b.kind = "Tool", b.call = c, b.from = {r}, b.state = "running",
             c \in DOMAIN u.index, u.index[c] = Len(u.blocks)
      PROVE  ToolsShown(u, r, {c}, kept)
  BY <1>1, <1>2, <1>3, <1>6, <1>8 DEF ToolsShown
<1> QED
  BY <1>7, <1>8

LEMMA GrowsKeeps ==
  ASSUME NEW t, NEW p \in Nat, Good(t, p), NEW b, b.number = p + 1, NEW r \in Nat, b.from = {r},
         NEW u, Grows(t, u, b),
         NEW q, NEW lost, ToolsShown(t, q, {}, lost), NEW kept, lost \subseteq kept
  PROVE  /\ Good(u, p + 1) /\ EndsWith(u, r) /\ Newest(u).number = p + 1 /\ Stays(t, u)
         /\ b.state # "running" => ToolsShown(u, r, {}, kept)
         /\ \A c : /\ b.kind = "Tool" /\ b.call = c /\ b.state = "running"
                   /\ c \in DOMAIN u.index /\ u.index[c] = Len(u.blocks)
                   => ToolsShown(u, r, {c}, kept)
<1>1. PICK n \in 0 .. Len(t.blocks) : Grown(t, u, b, n)
  BY DEF Grows
<1>2. Good(u, p + 1) /\ EndsWith(u, r) /\ u.blocks[Len(u.blocks)].number = p + 1
  BY <1>1, GrownBlocks
<1>3. Stays(t, u)
  BY <1>1, GrownSelection
<1>4. /\ b.state # "running" => ToolsShown(u, r, {}, kept)
      /\ \A c : /\ b.kind = "Tool" /\ b.call = c /\ b.from = {r} /\ b.state = "running"
                /\ c \in DOMAIN u.index /\ u.index[c] = Len(u.blocks)
                => ToolsShown(u, r, {c}, kept)
  <2>1. Placed(t)
    BY DEF Good
  <2> QED
    BY <1>1, <2>1, GrownTools
<1> QED
  BY <1>2, <1>3, <1>4 DEF Newest

-----------------------------------------------------------------------------
(* A block that changes in its place. *)

LEMMA EditKeeps ==
  ASSUME NEW t, NEW p \in Nat, Good(t, p), NEW i \in DOMAIN t.blocks, NEW b \in Block,
         b.number = t.blocks[i].number, b.from = t.blocks[i].from,
         NEW u, u = [t EXCEPT !.blocks = [t.blocks EXCEPT ![i] = b]]
  PROVE  /\ Good(u, p) /\ u.index = t.index
         /\ Len(u.blocks) = Len(t.blocks) /\ DOMAIN u.blocks = DOMAIN t.blocks
         /\ u.blocks[i] = b /\ \A j \in DOMAIN t.blocks : j # i => u.blocks[j] = t.blocks[j]
<1>t. Placed(t) /\ Numbered(t, p) /\ OfOneRun(t)
  BY DEF Good
<1>p. /\ Len(t.blocks) \in Nat /\ DOMAIN t.blocks = 1 .. Len(t.blocks)
      /\ t.blocks \in Seq(Block) /\ t \in Transcripts
  BY <1>t, PlacedParts
<1>1. PICK bs : bs = [t.blocks EXCEPT ![i] = b]
  OBVIOUS
<1>2. /\ bs \in Seq(Block) /\ Len(bs) = Len(t.blocks) /\ DOMAIN bs = DOMAIN t.blocks
      /\ bs[i] = b /\ \A j \in DOMAIN t.blocks : j # i => bs[j] = t.blocks[j]
  BY <1>p, <1>1
<1>3. /\ u \in Transcripts /\ u.blocks = bs /\ u.index = t.index /\ u.selected = t.selected
  BY <1>p, <1>1, <1>2 DEF Transcripts
<1>4. Placed(u)
  BY <1>t, <1>2, <1>3 DEF Placed
<1>5. \A j \in DOMAIN t.blocks : /\ u.blocks[j].number = t.blocks[j].number
                                 /\ u.blocks[j].from = t.blocks[j].from
  BY <1>2, <1>3
<1>6. Numbered(u, p)
  BY <1>t, <1>2, <1>3, <1>5 DEF Numbered
<1>7. OfOneRun(u)
  <2>1. SUFFICES ASSUME NEW j \in DOMAIN t.blocks PROVE \E r \in Nat : u.blocks[j].from = {r}
    BY <1>2, <1>3 DEF OfOneRun
  <2>2. PICK r \in Nat : t.blocks[j].from = {r}
    BY <1>t DEF OfOneRun
  <2> QED
    BY <1>5, <2>2
<1> QED
  BY <1>2, <1>3, <1>4, <1>6, <1>7 DEF Good

(* Output of the open call goes to its block. *)
LEMMA OutputKeeps ==
  ASSUME NEW t, NEW p \in Nat, Good(t, p), NEW r, NEW lost, NEW c,
         ToolsShown(t, r, {c}, lost), EndsWith(t, r)
  PROVE  /\ Good(AddOutput(t, c), p) /\ ToolsShown(AddOutput(t, c), r, {c}, lost)
         /\ EndsWith(AddOutput(t, c), r) /\ Len(AddOutput(t, c).blocks) = Len(t.blocks)
<1>t. Placed(t)
  BY DEF Good
<1>p. /\ Len(t.blocks) \in Nat /\ DOMAIN t.blocks = 1 .. Len(t.blocks)
      /\ t.blocks \in Seq(Block) /\ t \in Transcripts
      /\ \A d \in DOMAIN t.index : t.index[d] \in 1 .. Len(t.blocks)
  BY <1>t, PlacedParts
<1>1. /\ c \in DOMAIN t.index
      /\ t.blocks[t.index[c]].kind = "Tool" /\ t.blocks[t.index[c]].call = c
      /\ t.blocks[t.index[c]].from = {r} /\ t.blocks[t.index[c]].state = "running"
  BY DEF ToolsShown
<1>2. PICK i \in DOMAIN t.blocks : i = t.index[c]
  BY <1>p, <1>1
<1>3. PICK a \in Block : a = t.blocks[i]
  BY <1>p
<1>4. PICK b : b = [a EXCEPT !.output = "streamed"]
  OBVIOUS
<1>5. /\ b \in Block /\ b.number = a.number /\ b.from = a.from /\ b.kind = a.kind
      /\ b.call = a.call /\ b.state = a.state
  BY <1>3, <1>4 DEF Block, Outputs
<1>6. PICK u : u = AddOutput(t, c)
  OBVIOUS
<1>7. u = [t EXCEPT !.blocks = [t.blocks EXCEPT ![i] = b]]
  BY <1>1, <1>2, <1>3, <1>4, <1>6 DEF AddOutput
<1>8. /\ Good(u, p) /\ u.index = t.index
      /\ Len(u.blocks) = Len(t.blocks) /\ DOMAIN u.blocks = DOMAIN t.blocks
      /\ u.blocks[i] = b /\ \A j \in DOMAIN t.blocks : j # i => u.blocks[j] = t.blocks[j]
  BY <1>3, <1>5, <1>7, EditKeeps
<1>9. \A j \in DOMAIN t.blocks :
        /\ u.blocks[j].kind = t.blocks[j].kind /\ u.blocks[j].from = t.blocks[j].from
        /\ u.blocks[j].call = t.blocks[j].call /\ u.blocks[j].state = t.blocks[j].state
  BY <1>3, <1>5, <1>8
<1>10. ToolsShown(u, r, {c}, lost)
  BY <1>1, <1>2, <1>8, <1>9 DEF ToolsShown
<1>11. EndsWith(u, r)
  BY <1>p, <1>8, <1>9 DEF EndsWith
<1> QED
  BY <1>6, <1>8, <1>10, <1>11

(* A tool that ends is no longer said to run, and was the only one. *)
LEMMA FinishKeeps ==
  ASSUME NEW t, NEW p \in Nat, Good(t, p), NEW r, NEW lost, NEW c,
         ToolsShown(t, r, {c}, lost), EndsWith(t, r)
  PROVE  /\ Good(FinishTool(t, c), p) /\ ToolsShown(FinishTool(t, c), r, {}, lost)
         /\ EndsWith(FinishTool(t, c), r) /\ Len(FinishTool(t, c).blocks) = Len(t.blocks)
<1>t. Placed(t)
  BY DEF Good
<1>p. /\ Len(t.blocks) \in Nat /\ DOMAIN t.blocks = 1 .. Len(t.blocks)
      /\ t.blocks \in Seq(Block) /\ t \in Transcripts
      /\ \A d \in DOMAIN t.index : t.index[d] \in 1 .. Len(t.blocks)
  BY <1>t, PlacedParts
<1>1. /\ c \in DOMAIN t.index
      /\ t.blocks[t.index[c]].kind = "Tool" /\ t.blocks[t.index[c]].call = c
  BY DEF ToolsShown
<1>2. PICK i \in DOMAIN t.blocks : i = t.index[c]
  BY <1>p, <1>1
<1>3. PICK a \in Block : a = t.blocks[i]
  BY <1>p
<1>4. PICK b : b = Finished(a)
  OBVIOUS
<1>5. b \in Block /\ b.number = a.number /\ b.from = a.from /\ b.state = "finished"
  BY <1>3, <1>4 DEF Finished, Block, Outputs, ToolStates
<1>6. PICK u : u = FinishTool(t, c)
  OBVIOUS
<1>7. u = [t EXCEPT !.blocks = [t.blocks EXCEPT ![i] = b]]
  BY <1>1, <1>2, <1>3, <1>4, <1>6 DEF FinishTool
<1>8. /\ Good(u, p) /\ u.index = t.index
      /\ Len(u.blocks) = Len(t.blocks) /\ DOMAIN u.blocks = DOMAIN t.blocks
      /\ u.blocks[i] = b /\ \A j \in DOMAIN t.blocks : j # i => u.blocks[j] = t.blocks[j]
  BY <1>3, <1>5, <1>7, EditKeeps
<1>9. ASSUME NEW j \in DOMAIN u.blocks, u.blocks[j].state = "running"
      PROVE  u.blocks[j].from \subseteq lost
  <2>1. j \in DOMAIN t.blocks /\ j # i /\ u.blocks[j] = t.blocks[j]
    BY <1>5, <1>8, <1>9
  <2>2. \/ t.blocks[j].from \subseteq lost
        \/ t.blocks[j].call = c /\ t.index[c] = j
    BY <1>9, <2>1 DEF ToolsShown
  <2> QED
    BY <1>2, <2>1, <2>2
<1>10. ToolsShown(u, r, {}, lost)
  BY <1>9 DEF ToolsShown
<1>11. EndsWith(u, r)
  <2>1. \A j \in DOMAIN t.blocks : u.blocks[j].from = t.blocks[j].from
    BY <1>3, <1>5, <1>8
  <2> QED
    BY <1>p, <1>8, <2>1 DEF EndsWith
<1> QED
  BY <1>6, <1>8, <1>10, <1>11

(* Text goes on the last block only if that is of the run already. *)
LEMMA MergeIsNothing ==
  ASSUME NEW t, Placed(t), EndsWith(t, runs), LastIs(t, "Assistant")
  PROVE  AddText(t) = t
<1>p. /\ Len(t.blocks) \in Nat /\ DOMAIN t.blocks = 1 .. Len(t.blocks)
      /\ t.blocks \in Seq(Block) /\ t \in Transcripts
  BY PlacedParts
<1>1. PICK i \in DOMAIN t.blocks : i = Len(t.blocks)
  BY <1>p DEF EndsWith
<1>2. PICK a \in Block : a = t.blocks[i]
  BY <1>p
<1>3. a.from \cup {runs} = a.from
  BY <1>1, <1>2 DEF EndsWith
<1>4. [a EXCEPT !.from = a.from \cup {runs}] = a
  BY <1>2, <1>3 DEF Block
<1>5. [t.blocks EXCEPT ![i] = a] = t.blocks
  BY <1>p, <1>2
<1>6. [t EXCEPT !.blocks = t.blocks] = t
  BY <1>p DEF Transcripts
<1>7. AddText(t) = [t EXCEPT !.blocks = [t.blocks EXCEPT ![i] = [a EXCEPT !.from = a.from \cup {runs}]]]
  BY <1>1, <1>2 DEF AddText
<1> QED
  BY <1>4, <1>5, <1>6, <1>7

-----------------------------------------------------------------------------
(***************************************************************************)
(* The invariant: the run's open call and the counters are in their        *)
(* places, the transcript is a good one, what is open is shown, and while  *)
(* a run is going on the last block is of this run.                        *)
(***************************************************************************)

RunPlaced ==
  /\ phase \in {"Ready", "Allocated", "Running", "Ended"}
  /\ open \subseteq Calls
  /\ phase # "Running" => open = {}
  /\ \A c \in open : open = {c}
  /\ log \in Seq(Event)

Counters ==
  /\ runs \in Nat /\ pushed \in Nat /\ failed \subseteq 1 .. runs
  /\ phase # "Ready" => runs > 0

Inv ==
  /\ TypeOK /\ RunPlaced /\ Counters
  /\ Good(transcript, pushed)
  /\ ToolsShown(transcript, runs, open, failed)
  /\ phase \in {"Allocated", "Running"} => EndsWith(transcript, runs)
  /\ Fits(transcript, phase)

LEMMA RunStaysPlaced ==
  TypeOK /\ RunPlaced /\ [Next]_vars => TypeOK' /\ RunPlaced'
<1> SUFFICES ASSUME TypeOK, RunPlaced, [Next]_vars PROVE TypeOK' /\ RunPlaced'
  OBVIOUS
<1> USE DEF TypeOK, RunPlaced
<1>k. /\ \A k \in {"RunStarted", "TextDelta", "ProviderError", "RunFinished", "RunAborted", "RunFailed"} :
           Plain(k) \in Event
      /\ \A c \in Calls, k \in {"ToolStarted", "ToolOutput", "ToolFinished"} : Tool(k, c) \in Event
  BY DEF Event, Plain, Tool, PlainKinds, ToolKinds, TerminalKinds
<1>a. \A e \in Event : Append(log, e) \in Seq(Event)
  OBVIOUS
<1>n. <<>> \in Seq(Event)
  OBVIOUS
<1>1. CASE Allocate
  BY <1>1, <1>n DEF Allocate
<1>2. CASE Cancel
  BY <1>2 DEF Cancel
<1>3. CASE EmitRunStarted
  BY <1>3, <1>k, <1>a DEF EmitRunStarted
<1>4. ASSUME NEW k \in {"TextDelta", "ProviderError"}, EmitProgress(k) PROVE TypeOK' /\ RunPlaced'
  BY <1>4, <1>k, <1>a DEF EmitProgress, Running
<1>5. ASSUME NEW c \in Calls, EmitToolStarted(c) PROVE TypeOK' /\ RunPlaced'
  BY <1>5, <1>k, <1>a DEF EmitToolStarted, Running
<1>6. ASSUME NEW c \in Calls, EmitToolOutput(c) PROVE TypeOK' /\ RunPlaced'
  BY <1>6, <1>k, <1>a DEF EmitToolOutput, Running
<1>7. ASSUME NEW c \in Calls, EmitToolFinished(c) PROVE TypeOK' /\ RunPlaced'
  BY <1>7, <1>k, <1>a DEF EmitToolFinished, Running
<1>8. CASE EmitRunFinished
  BY <1>8, <1>k, <1>a DEF EmitRunFinished, End, Running
<1>9. CASE EmitRunAborted
  BY <1>9, <1>k, <1>a DEF EmitRunAborted, End, Running
<1>10. CASE EmitRunFailed
  BY <1>10, <1>k, <1>a DEF EmitRunFailed, End, Running
<1>11. CASE UNCHANGED vars
  BY <1>11 DEF vars
<1> QED
  BY <1>1, <1>2, <1>3, <1>4, <1>5, <1>6, <1>7, <1>8, <1>9, <1>10, <1>11 DEF Next

-----------------------------------------------------------------------------
(* What the reducer sees of a step of the run. *)

LEMMA RunStepCounts ==
  ASSUME Inv, RunStep
  PROVE  Counters' /\ failed \subseteq failed' /\ runs' \in Nat
<1>i. Counters /\ RunPlaced /\ TypeOK
  BY DEF Inv
<1>1. [Next]_vars
  BY DEF RunStep
<1>2. phase' # "Ready" /\ (phase' # "Allocated" => phase # "Ready")
  BY <1>i DEF RunStep, Next, Allocate, Cancel, EmitRunStarted, EmitProgress, EmitToolStarted,
    EmitToolOutput, EmitToolFinished, EmitRunFinished, EmitRunAborted, EmitRunFailed, End, Running,
    RunPlaced
<1>3. runs' \in Nat /\ runs <= runs' /\ runs' > 0
  <2>1. runs' = IF phase' = "Allocated" /\ phase # "Allocated" THEN runs + 1 ELSE runs
    BY DEF RunStep
  <2> QED
    BY <1>i, <1>2, <2>1 DEF Counters
<1>4. pushed' \in Nat
  BY <1>i DEF RunStep, Counted, Counters
<1>5. failed' = failed \/ failed' = failed \cup {runs'}
  BY DEF RunStep
<1>6. failed' \subseteq 1 .. runs'
  <2>1. PICK q \in Nat, r \in Nat : q = runs /\ r = runs'
    BY <1>i, <1>3 DEF Counters
  <2>2. 1 .. q \subseteq 1 .. r /\ r \in 1 .. r
    BY <1>3, <2>1
  <2>3. failed \subseteq 1 .. q
    BY <1>i, <2>1 DEF Counters
  <2> QED
    BY <1>5, <2>1, <2>2, <2>3
<1> QED
  BY <1>3, <1>4, <1>5, <1>6 DEF Counters

LEMMA Reduces ==
  ASSUME Inv, RunStep, NEW e \in Event, log' = Append(log, e), phase' # "Allocated"
  PROVE  runs' = runs /\ transcript' = Reduce(transcript, e) /\ Counted(transcript')
<1>1. log \in Seq(Event)
  BY DEF Inv, RunPlaced
<1>2. PICK l : l = log'
  OBVIOUS
<1>3. l # log /\ l[Len(l)] = e
  BY <1>1, <1>2
<1>4. runs' = runs
  BY DEF RunStep
<1> QED
  BY <1>2, <1>3, <1>4 DEF RunStep

LEMMA Counting ==
  ASSUME NEW p \in Nat, p = pushed, NEW u, Counted(u), Len(u.blocks) \in Nat
  PROVE  /\ Good(u, p) => pushed' = p
         /\ u.blocks # <<>> /\ Newest(u).number = p + 1 => pushed' = p + 1
<1>1. ASSUME Good(u, p), u.blocks # <<>> PROVE ~(Newest(u).number > p)
  <2>1. /\ Len(u.blocks) \in Nat /\ DOMAIN u.blocks = 1 .. Len(u.blocks)
        /\ u.blocks \in Seq(Block)
    BY <1>1, PlacedParts DEF Good
  <2>2. PICK i \in DOMAIN u.blocks : i = Len(u.blocks)
    BY <1>1, <2>1
  <2>3. u.blocks[i].number \in 1 .. p
    BY <1>1 DEF Good, Numbered
  <2> QED
    BY <2>2, <2>3 DEF Newest
<1> QED
  BY <1>1 DEF Counted

LEMMA BlocksTyped ==
  ASSUME runs \in Nat, pushed \in Nat
  PROVE  /\ \A k \in Kinds : /\ Plainly(k) \in Block /\ Plainly(k).number = pushed + 1
                             /\ Plainly(k).from = {runs} /\ Plainly(k).state # "running"
         /\ \A c \in Calls : LET b == ToolBlock(c, "running", "none")
                             IN  /\ b \in Block /\ b.number = pushed + 1 /\ b.from = {runs}
                                 /\ b.kind = "Tool" /\ b.call = c /\ b.state = "running"
         /\ \A r \in Nat : LET b == [Plainly("User") EXCEPT !.from = {r}]
                           IN  /\ b \in Block /\ b.number = pushed + 1 /\ b.from = {r}
                               /\ b.state # "running"
<1>1. \A k \in Kinds : /\ Plainly(k) \in Block /\ Plainly(k).number = pushed + 1
                       /\ Plainly(k).from = {runs} /\ Plainly(k).state # "running"
  BY DEF Plainly, Block, Kinds, Outputs
<1>2. ASSUME NEW c \in Calls
      PROVE  LET b == ToolBlock(c, "running", "none")
             IN  /\ b \in Block /\ b.number = pushed + 1 /\ b.from = {runs}
                 /\ b.kind = "Tool" /\ b.call = c /\ b.state = "running"
  <2>1. PICK a \in Block : a = Plainly("Tool")
    BY <1>1 DEF Kinds
  <2>2. /\ a.number = pushed + 1 /\ a.from = {runs} /\ a.kind = "Tool"
    BY <2>1 DEF Plainly
  <2>3. PICK b : b = [a EXCEPT !.call = c, !.state = "running", !.output = "none"]
    OBVIOUS
  <2>4. /\ b \in Block /\ b.number = a.number /\ b.from = a.from /\ b.kind = a.kind
        /\ b.call = c /\ b.state = "running"
    BY <2>3 DEF Block, ToolStates, Outputs
  <2>5. b = ToolBlock(c, "running", "none")
    BY <2>1, <2>3 DEF ToolBlock
  <2> QED
    BY <2>2, <2>4, <2>5
<1>3. ASSUME NEW r \in Nat
      PROVE  LET b == [Plainly("User") EXCEPT !.from = {r}]
             IN  /\ b \in Block /\ b.number = pushed + 1 /\ b.from = {r} /\ b.state # "running"
  BY DEF Plainly, Block, Kinds, Outputs
<1> QED
  BY <1>1, <1>2, <1>3

-----------------------------------------------------------------------------
(***************************************************************************)
(* The invariant is inductive, and with it goes what SelectionStays says   *)
(* of a step.                                                              *)
(***************************************************************************)

Follows ==
  /\ Good(transcript', pushed')
  /\ ToolsShown(transcript', runs', open', failed')
  /\ phase' \in {"Allocated", "Running"} => EndsWith(transcript', runs')
  /\ Fits(transcript', phase')
  /\ pushed' # pushed => Stays(transcript, transcript')

LEMMA ToolsLost ==
  ASSUME NEW t, NEW r, NEW calls, NEW lost, ToolsShown(t, r, calls, lost),
         NEW kept, lost \subseteq kept
  PROVE  /\ ToolsShown(t, r, calls, kept)
         /\ calls = {} \/ r \in kept => ToolsShown(t, r, {}, kept)
  BY DEF ToolsShown

(* A block is pushed: no call is open any longer, or just the new one.     *)
LEMMA PushAfter ==
  ASSUME Inv, Counters', Counted(transcript'), Fits(transcript', phase'),
         NEW b \in Block, b.number = pushed + 1, b.from = {runs'},
         Grows(transcript, transcript', b),
         ToolsShown(transcript, runs, {}, failed'),
         \/ open' = {} /\ b.state # "running"
         \/ \E c : /\ open' = {c} /\ b.kind = "Tool" /\ b.call = c /\ b.state = "running"
                   /\ c \in DOMAIN transcript'.index
                   /\ transcript'.index[c] = Len(transcript'.blocks)
  PROVE  Follows
<1>n. PICK p \in Nat, r \in Nat : p = pushed /\ r = runs'
  BY DEF Inv, Counters
<1>t. PICK t, q, lost, u : t = transcript /\ q = runs /\ lost = failed' /\ u = transcript'
  OBVIOUS
<1>1. /\ t = transcript /\ p = pushed /\ r = runs' /\ q = runs /\ lost = failed' /\ u = transcript'
      /\ b.number = p + 1 /\ b.from = {r} /\ lost \subseteq lost
  BY <1>n, <1>t
<1>2. /\ Good(t, p) /\ Grows(t, u, b) /\ ToolsShown(t, q, {}, lost) /\ lost \subseteq lost
      /\ b.number = p + 1 /\ b.from = {r}
  BY <1>1 DEF Inv
<1>3. /\ Good(u, p + 1) /\ EndsWith(u, r) /\ Newest(u).number = p + 1 /\ Stays(t, u)
      /\ b.state # "running" => ToolsShown(u, r, {}, lost)
      /\ \A c : /\ b.kind = "Tool" /\ b.call = c /\ b.state = "running"
                /\ c \in DOMAIN u.index /\ u.index[c] = Len(u.blocks)
                => ToolsShown(u, r, {c}, lost)
  BY <1>2, GrowsKeeps
<1>4. Len(u.blocks) \in Nat /\ u.blocks # <<>>
  <2>1. u.blocks \in Seq(Block) /\ Len(u.blocks) \in Nat
    BY <1>3, PlacedParts DEF Good
  <2> QED
    BY <1>3, <2>1 DEF EndsWith
<1>5. pushed' = p + 1
  BY <1>1, <1>3, <1>4, Counting
<1>6. ToolsShown(u, r, open', lost)
  <2>1. CASE open' = {} /\ b.state # "running"
    BY <1>3, <2>1
  <2>2. ASSUME NEW c, open' = {c}, b.kind = "Tool", b.call = c, b.state = "running",
               c \in DOMAIN u.index, u.index[c] = Len(u.blocks)
        PROVE  ToolsShown(u, r, open', lost)
    BY <1>3, <2>2
  <2> QED
    BY <1>1, <2>1, <2>2
<1> QED
  BY <1>1, <1>3, <1>5, <1>6 DEF Follows

(* No block is added. *)
LEMMA KeepAfter ==
  ASSUME Inv, Good(transcript', pushed), Counted(transcript'), Fits(transcript', phase'),
         ToolsShown(transcript', runs', open', failed'),
         phase' \in {"Allocated", "Running"} => EndsWith(transcript', runs')
  PROVE  Follows
<1>a. PICK p \in Nat : p = pushed
  BY DEF Inv, Counters
<1>b. PICK u : u = transcript'
  OBVIOUS
<1>1. p = pushed /\ u = transcript'
  BY <1>a, <1>b
<1>2. Good(u, p) /\ Counted(u)
  BY <1>1
<1>3. Len(u.blocks) \in Nat
  BY <1>2, PlacedParts DEF Good
<1>4. pushed' = p
  BY <1>1, <1>2, <1>3, Counting
<1> QED
  BY <1>1, <1>4 DEF Follows

LEMMA EventsTyped ==
  /\ \A k \in {"RunStarted", "TextDelta", "ProviderError", "RunFinished", "RunAborted", "RunFailed"} :
       Plain(k) \in Event /\ Plain(k).kind = k
  /\ \A c \in Calls, k \in {"ToolStarted", "ToolOutput", "ToolFinished"} :
       Tool(k, c) \in Event /\ Tool(k, c).kind = k /\ Tool(k, c).call = c
  BY DEF Event, Plain, Tool, PlainKinds, ToolKinds, TerminalKinds

LEMMA RunAfter == ASSUME TranscriptAssumption, Inv, RunStep PROVE Follows
<1>i. /\ Counters /\ RunPlaced /\ Good(transcript, pushed) /\ Placed(transcript)
      /\ ToolsShown(transcript, runs, open, failed)
      /\ phase \in {"Allocated", "Running"} => EndsWith(transcript, runs)
      /\ Fits(transcript, phase) /\ runs \in Nat /\ pushed \in Nat
  BY DEF Inv, Good, Counters
<1>c. Counters' /\ failed \subseteq failed' /\ runs' \in Nat
  BY RunStepCounts
<1>k. Counted(transcript')
  BY DEF RunStep
<1>r. ASSUME NEW e \in Event, log' = Append(log, e), phase' # "Allocated"
      PROVE  runs' = runs /\ transcript' = Reduce(transcript, e)
  BY <1>r, Reduces
(* The number of blocks stays in a run. *)
<1>f. ASSUME phase \in {"Allocated", "Running"}, Good(transcript', pushed),
             Len(transcript'.blocks) = Len(transcript.blocks)
      PROVE  Fits(transcript', phase')
  <2>1. PICK t, u, w, a : t = transcript /\ u = transcript' /\ w = phase /\ a = phase'
    OBVIOUS
  <2>2. Placed(t) /\ Placed(u) /\ Len(u.blocks) = Len(t.blocks) /\ Fits(t, w)
    BY <1>i, <1>f, <2>1 DEF Good
  <2>3. Fits(u, a)
    BY <1>f, <2>1, <2>2, ShortAsBefore
  <2> QED
    BY <2>1, <2>3
(* A block is pushed while no call is open. *)
<1>p. ASSUME NEW b \in Block, b.number = pushed + 1, b.from = {runs'}, b.state # "running",
             transcript' = Push(transcript, b), open = {} \/ runs \in failed', open' = {}
      PROVE  Follows
  <2>1. Grows(transcript, Push(transcript, b), b)
    BY <1>i, PushGrows
  <2>2. ToolsShown(transcript, runs, {}, failed')
    BY <1>i, <1>c, <1>p, ToolsLost
  <2>3. Fits(transcript', phase')
    BY <1>i, <1>p, PushGrows
  <2> QED
    BY <1>c, <1>k, <1>p, <2>1, <2>2, <2>3, PushAfter
<1>1. CASE Allocate
  <2>1. open = {} /\ open' = {} /\ phase' = "Allocated" /\ phase # "Allocated"
    BY <1>1, <1>i DEF Allocate, RunPlaced
  <2>2. runs' = runs + 1 /\ runs' # runs
    BY <1>i, <2>1 DEF RunStep
  <2>3. transcript' = Push(transcript, [Plainly("User") EXCEPT !.from = {runs'}])
    BY <2>2 DEF RunStep, Accepted
  <2>4. PICK b : b = [Plainly("User") EXCEPT !.from = {runs'}]
    OBVIOUS
  <2>5. b \in Block /\ b.number = pushed + 1 /\ b.from = {runs'} /\ b.state # "running"
    BY <1>i, <1>c, <2>4, BlocksTyped
  <2> QED
    BY <1>p, <2>1, <2>3, <2>4, <2>5
<1>2. CASE Cancel
  <2>1. /\ open' = open /\ log' = log /\ phase' = phase /\ phase # "Ready"
        /\ phase' \in {"Allocated", "Running"}
    BY <1>2 DEF Cancel
  <2>2. runs' = runs /\ transcript' = transcript
    BY <2>1 DEF RunStep
  <2>3. ToolsShown(transcript, runs, open, failed')
    BY <1>i, <1>c, ToolsLost
  <2> QED
    BY <1>i, <1>f, <1>k, <2>1, <2>2, <2>3, KeepAfter
<1>3. CASE EmitRunStarted
  <2>1. /\ phase = "Allocated" /\ phase' = "Running" /\ open = {} /\ open' = {}
        /\ log' = Append(log, Plain("RunStarted"))
    BY <1>3, <1>i DEF EmitRunStarted, RunPlaced
  <2>2. runs' = runs /\ transcript' = Reduce(transcript, Plain("RunStarted"))
    BY <1>r, <2>1, EventsTyped
  <2>3. PICK t, u : t = transcript /\ u = transcript'
    OBVIOUS
  <2>4. u = [t EXCEPT !.index = [c \in {} |-> 0]]
    BY <2>2, <2>3, EventsTyped DEF Reduce
  <2>5. /\ t \in Transcripts /\ t.blocks \in Seq(Block) /\ t.selected \in Nat
    BY <1>i, <2>3, PlacedParts
  <2>6. [c \in {} |-> 0] \in Indexes
    <3>1. [c \in {} |-> 0] \in [{} -> Nat]
      OBVIOUS
    <3> QED
      BY <3>1 DEF Indexes
  <2>7. /\ u.blocks = t.blocks /\ u.selected = t.selected /\ u.index = [c \in {} |-> 0]
        /\ u \in Transcripts
    BY <2>4, <2>5, <2>6 DEF Transcripts
  <2>8. Good(u, pushed)
    <3>1. Placed(u)
      BY <1>i, <2>3, <2>7 DEF Placed
    <3>2. Numbered(u, pushed) /\ OfOneRun(u)
      BY <1>i, <2>3, <2>7 DEF Good, Numbered, OfOneRun
    <3> QED
      BY <3>1, <3>2 DEF Good
  <2>9. ToolsShown(u, runs, {}, failed')
    <3>1. ToolsShown(t, runs, {}, failed')
      BY <1>i, <1>c, <2>1, <2>3, ToolsLost
    <3> QED
      BY <2>7, <3>1 DEF ToolsShown
  <2>10. EndsWith(u, runs)
    BY <1>i, <2>1, <2>3, <2>7 DEF EndsWith
  <2> QED
    BY <1>f, <1>k, <2>1, <2>2, <2>3, <2>7, <2>8, <2>9, <2>10, KeepAfter
<1>4. CASE EmitProgress("TextDelta")
  <2>1. /\ phase = "Running" /\ phase' = "Running" /\ open = {} /\ open' = {}
        /\ log' = Append(log, Plain("TextDelta"))
    BY <1>4 DEF EmitProgress, Running
  <2>2. runs' = runs /\ transcript' = Reduce(transcript, Plain("TextDelta"))
    BY <1>r, <2>1, EventsTyped
  <2>3. transcript' = AddText(transcript)
    BY <2>2, EventsTyped DEF Reduce
  <2>4. CASE LastIs(transcript, "Assistant")
    <3>1. transcript' = transcript
      <4>1. PICK t : t = transcript
        OBVIOUS
      <4>2. AddText(t) = t
        BY <1>i, <2>1, <2>4, <4>1, MergeIsNothing
      <4> QED
        BY <2>3, <4>1, <4>2
    <3>2. ToolsShown(transcript, runs, open', failed')
      BY <1>i, <1>c, <2>1, ToolsLost
    <3> QED
      BY <1>i, <1>f, <1>k, <2>1, <2>2, <3>1, <3>2, KeepAfter
  <2>5. CASE ~LastIs(transcript, "Assistant")
    <3>1. transcript' = Push(transcript, Plainly("Assistant"))
      BY <2>3, <2>5 DEF AddText
    <3>2. /\ Plainly("Assistant") \in Block /\ Plainly("Assistant").number = pushed + 1
          /\ Plainly("Assistant").from = {runs} /\ Plainly("Assistant").state # "running"
      BY <1>i, BlocksTyped DEF Kinds
    <3>3. PICK b : b = Plainly("Assistant")
      OBVIOUS
    <3> QED
      BY <1>p, <2>1, <2>2, <3>1, <3>2, <3>3
  <2> QED
    BY <2>4, <2>5
<1>5. ASSUME NEW k \in {"ProviderError", "RunAborted", "RunFailed"},
             log' = Append(log, Plain(k)), phase' # "Allocated", open' = {},
             open = {} \/ runs \in failed'
      PROVE  Follows
  <2>2. runs' = runs /\ transcript' = Reduce(transcript, Plain(k))
    BY <1>r, <1>5, EventsTyped
  <2>3. transcript' = Push(transcript, Plainly("Error")) \/ transcript' = Push(transcript, Plainly("System"))
    BY <2>2, EventsTyped DEF Reduce
  <2>4. PICK b : b \in {Plainly("Error"), Plainly("System")} /\ transcript' = Push(transcript, b)
    BY <2>3
  <2>5. b \in Block /\ b.number = pushed + 1 /\ b.from = {runs} /\ b.state # "running"
    BY <1>i, <2>4, BlocksTyped DEF Kinds
  <2> QED
    BY <1>p, <1>5, <2>2, <2>4, <2>5
<1>6. CASE EmitProgress("ProviderError")
  BY <1>5, <1>6 DEF EmitProgress, Running
<1>7. CASE EmitRunAborted
  BY <1>5, <1>7 DEF EmitRunAborted, End
<1>8. CASE EmitRunFailed
  <2>1. /\ log' = Append(log, Plain("RunFailed")) /\ phase' = "Ended" /\ open' = {}
        /\ result' = "Err"
    BY <1>8 DEF EmitRunFailed, End
  <2>2. runs' = runs
    BY <1>r, <2>1, EventsTyped
  <2>3. runs \in failed'
    BY <2>1, <2>2 DEF RunStep
  <2> QED
    BY <1>5, <2>1, <2>3
<1>9. CASE EmitRunFinished
  <2>1. /\ log' = Append(log, Plain("RunFinished")) /\ phase = "Running" /\ phase' = "Ended"
        /\ open' = {} /\ open = {}
    BY <1>9 DEF EmitRunFinished, End, Running
  <2>2. runs' = runs /\ transcript' = Reduce(transcript, Plain("RunFinished"))
    BY <1>r, <2>1, EventsTyped
  <2>3. transcript' = transcript
    BY <2>2, EventsTyped DEF Reduce
  <2>4. ToolsShown(transcript, runs, open', failed')
    BY <1>i, <1>c, <2>1, ToolsLost
  <2> QED
    BY <1>i, <1>f, <1>k, <2>1, <2>2, <2>3, <2>4, KeepAfter
<1>10. ASSUME NEW c \in Calls, EmitToolStarted(c) PROVE Follows
  <2>1. /\ phase' = "Running" /\ open = {} /\ open' = {c}
        /\ log' = Append(log, Tool("ToolStarted", c))
    BY <1>10 DEF EmitToolStarted, Running
  <2>2. runs' = runs /\ transcript' = Reduce(transcript, Tool("ToolStarted", c))
    BY <1>r, <2>1, EventsTyped
  <2>3. transcript' = StartTool(transcript, c)
    BY <2>2, EventsTyped DEF Reduce
  <2>4. PICK b \in Block : /\ b = ToolBlock(c, "running", "none") /\ b.number = pushed + 1
                           /\ b.from = {runs}
                           /\ b.kind = "Tool" /\ b.call = c /\ b.state = "running"
    BY <1>i, BlocksTyped
  <2>5. PICK u : u = transcript'
    OBVIOUS
  <2>6. u = Enforce(Indexed(Add(transcript, b), c))
    BY <2>3, <2>4, <2>5 DEF StartTool
  <2>7. /\ Grows(transcript, u, b) /\ c \in DOMAIN u.index /\ u.index[c] = Len(u.blocks)
        /\ Fits(u, phase')
    BY <1>i, <2>6, StartGrows
  <2>8. ToolsShown(transcript, runs, {}, failed')
    BY <1>i, <1>c, <2>1, ToolsLost
  <2> QED
    BY <1>c, <1>k, <2>1, <2>2, <2>4, <2>5, <2>7, <2>8, PushAfter
<1>11. ASSUME NEW c \in Calls, EmitToolOutput(c) PROVE Follows
  <2>1. /\ phase = "Running" /\ phase' = "Running" /\ open = {c} /\ open' = {c}
        /\ log' = Append(log, Tool("ToolOutput", c))
    BY <1>11 DEF EmitToolOutput, Running, InCall
  <2>2. runs' = runs /\ transcript' = Reduce(transcript, Tool("ToolOutput", c))
    BY <1>r, <2>1, EventsTyped
  <2>3. transcript' = AddOutput(transcript, c)
    BY <2>2, EventsTyped DEF Reduce
  <2>4. ToolsShown(transcript, runs, {c}, failed') /\ EndsWith(transcript, runs)
    BY <1>i, <1>c, <2>1, ToolsLost
  <2>5. /\ Good(AddOutput(transcript, c), pushed)
        /\ ToolsShown(AddOutput(transcript, c), runs, {c}, failed')
        /\ EndsWith(AddOutput(transcript, c), runs)
        /\ Len(AddOutput(transcript, c).blocks) = Len(transcript.blocks)
    BY <1>i, <2>4, OutputKeeps
  <2> QED
    BY <1>f, <1>k, <2>1, <2>2, <2>3, <2>5, KeepAfter
<1>12. ASSUME NEW c \in Calls, EmitToolFinished(c) PROVE Follows
  <2>1. /\ phase = "Running" /\ phase' = "Running" /\ open = {c} /\ open' = {}
        /\ log' = Append(log, Tool("ToolFinished", c))
    BY <1>12 DEF EmitToolFinished, Running, InCall
  <2>2. runs' = runs /\ transcript' = Reduce(transcript, Tool("ToolFinished", c))
    BY <1>r, <2>1, EventsTyped
  <2>3. transcript' = FinishTool(transcript, c)
    BY <2>2, EventsTyped DEF Reduce
  <2>4. ToolsShown(transcript, runs, {c}, failed') /\ EndsWith(transcript, runs)
    BY <1>i, <1>c, <2>1, ToolsLost
  <2>5. /\ Good(FinishTool(transcript, c), pushed)
        /\ ToolsShown(FinishTool(transcript, c), runs, {}, failed')
        /\ EndsWith(FinishTool(transcript, c), runs)
        /\ Len(FinishTool(transcript, c).blocks) = Len(transcript.blocks)
    BY <1>i, <2>4, FinishKeeps
  <2> QED
    BY <1>f, <1>k, <2>1, <2>2, <2>3, <2>5, KeepAfter
<1> QED
  BY <1>1, <1>2, <1>3, <1>4, <1>6, <1>7, <1>8, <1>9, <1>10, <1>11, <1>12 DEF RunStep, Next

-----------------------------------------------------------------------------
(* What the user does. *)

LEMMA FirstInSet ==
  ASSUME NEW S, S \subseteq Nat, S # {}
  PROVE  FirstOf(S) \in S
<1>1. PICK x \in S : \A y \in S : <<y, x>> \notin OpToRel(<, Nat)
  BY NatLessThanWellFounded, WFMin
<1>2. \A y \in S : ~(y < x)
  BY <1>1 DEF OpToRel
<1>3. \A y \in S : x \in Nat /\ y \in Nat
  OBVIOUS
<1>4. \A y \in S : x <= y
  BY <1>2, <1>3
<1> QED
  BY <1>4 DEF FirstOf

LEMMA LastInSet ==
  ASSUME NEW n \in Nat, NEW S, S \subseteq 1 .. n, S # {}
  PROVE  LastOf(S) \in S
<1> DEFINE T == {n - i : i \in S}
<1>1. T \subseteq Nat /\ T # {}
  <2>1. \A i \in S : n - i \in Nat
    OBVIOUS
  <2>2. PICK i \in S : TRUE
    OBVIOUS
  <2> QED
    BY <2>1, <2>2
<1>2. PICK x \in T : \A y \in T : <<y, x>> \notin OpToRel(<, Nat)
  <2> HIDE DEF T
  <2> QED
    BY <1>1, NatLessThanWellFounded, WFMin
<1>3. \A y \in T : ~(y < x)
  BY <1>1, <1>2 DEF OpToRel
<1>4. PICK i \in S : x = n - i
  OBVIOUS
<1>5. \A j \in S : j <= i
  BY <1>3, <1>4
<1> QED
  BY <1>5 DEF LastOf

(* Only tools that are there can be selected. *)
LEMMA ChoicesPlaced ==
  ASSUME Placed(transcript), Selectable # {}
  PROVE  NextChoices \subseteq DOMAIN transcript.blocks
<1>a. PICK k \in Nat : k = Len(transcript.blocks)
  BY PlacedParts
<1>b. PICK D : D = DOMAIN transcript.blocks
  OBVIOUS
<1>1. k = Len(transcript.blocks) /\ D = DOMAIN transcript.blocks /\ D = 1 .. k
  BY <1>a, <1>b, PlacedParts
<1>2. PICK S, x : S = Selectable /\ x = transcript.selected /\ S \subseteq D
  BY <1>1 DEF Selectable
<1>3. ASSUME NEW T, T \subseteq S, T # {} PROVE FirstOf(T) \in D /\ LastOf(T) \in D
  <2>1. T \subseteq 1 .. k /\ T \subseteq Nat
    BY <1>1, <1>2, <1>3
  <2>2. FirstOf(T) \in T
    BY <1>3, <2>1, FirstInSet
  <2>3. LastOf(T) \in T
    BY <1>3, <2>1, LastInSet
  <2> QED
    BY <1>1, <2>1, <2>2, <2>3
<1>4. PICK A, B : A = {i \in S : i < x} /\ B = {i \in S : i > x}
  OBVIOUS
<1>5. NextChoices = {FirstOf(S), LastOf(S)}
                  \cup (IF x \in S /\ A # {} THEN {LastOf(A)} ELSE {})
                  \cup (IF x \in S /\ B # {} THEN {FirstOf(B)} ELSE {})
  BY <1>2, <1>4 DEF NextChoices
<1>6. A \subseteq S /\ B \subseteq S /\ S # {}
  BY <1>2, <1>4
<1> QED
  BY <1>1, <1>3, <1>5, <1>6

LEMMA SelectionKeeps ==
  ASSUME NEW t, NEW p, Good(t, p), NEW i \in {0} \cup DOMAIN t.blocks,
         NEW u, u = [t EXCEPT !.selected = i]
  PROVE  Good(u, p) /\ u.blocks = t.blocks /\ u.index = t.index
<1>t. Placed(t) /\ Numbered(t, p) /\ OfOneRun(t)
  BY DEF Good
<1>p. t \in Transcripts /\ i \in Nat
  <2>1. DOMAIN t.blocks = 1 .. Len(t.blocks) /\ t \in Transcripts /\ Len(t.blocks) \in Nat
    BY <1>t, PlacedParts
  <2> QED
    BY <2>1
<1>1. u \in Transcripts /\ u.blocks = t.blocks /\ u.index = t.index /\ u.selected = i
  BY <1>p DEF Transcripts
<1>2. Placed(u)
  BY <1>t, <1>1 DEF Placed
<1>3. Numbered(u, p) /\ OfOneRun(u)
  BY <1>t, <1>1 DEF Numbered, OfOneRun
<1> QED
  BY <1>1, <1>2, <1>3 DEF Good

UserStep ==
  \/ \E k \in {"System", "Error"} : ShowMessage(k)
  \/ ShowCancelled \/ Select \/ Deselect

LEMMA UserAfter ==
  ASSUME TranscriptAssumption, Inv, UserStep
  PROVE  Follows /\ Counters' /\ UNCHANGED vars
<1>i. /\ Counters /\ RunPlaced /\ Good(transcript, pushed) /\ Placed(transcript)
      /\ ToolsShown(transcript, runs, open, failed)
      /\ phase \in {"Allocated", "Running"} => EndsWith(transcript, runs)
      /\ Fits(transcript, phase) /\ runs \in Nat /\ pushed \in Nat
  BY DEF Inv, Good, Counters
<1>1. ASSUME NEW b \in Block, b.number = pushed + 1, b.from = {runs}, b.state # "running",
             Grows(transcript, transcript', b), NotRunning, Counted(transcript'),
             UNCHANGED <<vars, runs, failed>>, Fits(transcript', phase)
      PROVE  Follows /\ Counters' /\ UNCHANGED vars
  <2>1. open = {} /\ open' = {} /\ runs' = runs /\ failed' = failed /\ phase' = phase
    BY <1>i, <1>1 DEF NotRunning, RunPlaced, vars
  <2>2. Counters'
    <3>1. pushed' \in Nat
      BY <1>i, <1>1 DEF Counted
    <3> QED
      BY <1>i, <2>1, <3>1 DEF Counters
  <2>3. ToolsShown(transcript, runs, {}, failed')
    BY <1>i, <2>1
  <2> QED
    BY <1>1, <2>1, <2>2, <2>3, PushAfter
<1>2. ASSUME NEW k \in {"System", "Error"}, ShowMessage(k) PROVE Follows /\ Counters' /\ UNCHANGED vars
  <2>1. /\ NotRunning /\ transcript' = Push(transcript, Plainly(k)) /\ Counted(transcript')
        /\ UNCHANGED <<vars, runs, failed>>
    BY <1>2 DEF ShowMessage
  <2>2. PICK b \in Block : /\ b = Plainly(k) /\ b.number = pushed + 1 /\ b.from = {runs}
                           /\ b.state # "running"
    BY <1>i, BlocksTyped DEF Kinds
  <2>3. Grows(transcript, Push(transcript, b), b) /\ Fits(Push(transcript, b), phase)
    BY <1>i, PushGrows
  <2> QED
    BY <1>1, <2>1, <2>2, <2>3
<1>3. CASE ShowCancelled
  <2>1. /\ NotRunning /\ transcript' = Add(transcript, Plainly("System")) /\ Counted(transcript')
        /\ UNCHANGED <<vars, runs, failed>>
    BY <1>3 DEF ShowCancelled
  <2>2. PICK b \in Block : /\ b = Plainly("System") /\ b.number = pushed + 1 /\ b.from = {runs}
                           /\ b.state # "running"
    BY <1>i, BlocksTyped DEF Kinds
  <2>3. Grows(transcript, Add(transcript, b), b)
    <3>1. Grown(transcript, Add(transcript, b), b, 0)
      BY <1>i, AddGrows
    <3>2. 0 \in 0 .. Len(transcript.blocks)
      BY <1>i, PlacedParts
    <3> QED
      BY <3>1, <3>2 DEF Grows
  <2>4. Fits(Add(transcript, b), phase)
    <3>1. PICK u : u = Add(transcript, b)
      OBVIOUS
    <3>2. Grown(transcript, u, b, 0)
      BY <1>i, <3>1, AddGrows
    <3>3. u.blocks[Len(u.blocks)].kind = "System"
      BY <2>2, <3>2 DEF Grown, Plainly
    <3>4. u.blocks # <<>>
      <4>1. Len(u.blocks) = Len(transcript.blocks) + 1 - 0 /\ Len(transcript.blocks) \in Nat
        BY <1>i, <3>2, PlacedParts DEF Grown
      <4> QED
        BY <4>1
    <3> QED
      BY <2>1, <3>1, <3>3, <3>4 DEF Fits, LastIs, NotRunning
  <2> QED
    BY <1>1, <2>1, <2>2, <2>3, <2>4
<1>4. ASSUME NEW i \in {0} \cup DOMAIN transcript.blocks,
             transcript' = [transcript EXCEPT !.selected = i],
             UNCHANGED <<vars, runs, pushed, failed>>
      PROVE  Follows /\ Counters' /\ UNCHANGED vars
  <2>1. PICK t, u, p : t = transcript /\ u = transcript' /\ p = pushed
    OBVIOUS
  <2>2. Good(u, p) /\ u.blocks = t.blocks /\ u.index = t.index
    BY <1>i, <1>4, <2>1, SelectionKeeps
  <2>3. open' = open /\ runs' = runs /\ failed' = failed /\ phase' = phase /\ pushed' = pushed
    BY <1>4 DEF vars
  <2>4. ToolsShown(u, runs, open, failed)
    BY <1>i, <2>1, <2>2 DEF ToolsShown
  <2>5. phase \in {"Allocated", "Running"} => EndsWith(u, runs)
    BY <1>i, <2>1, <2>2 DEF EndsWith
  <2>6. Counters'
    BY <1>i, <2>3 DEF Counters
  <2>7. Fits(u, phase)
    BY <1>i, <2>1, <2>2 DEF Fits, LastIs
  <2> QED
    BY <1>4, <2>1, <2>2, <2>3, <2>4, <2>5, <2>6, <2>7 DEF Follows
<1>5. CASE Select
  <2>1. PICK i \in (IF Selectable = {} THEN {0} ELSE NextChoices) :
          transcript' = [transcript EXCEPT !.selected = i]
    BY <1>5 DEF Select
  <2>2. i \in {0} \cup DOMAIN transcript.blocks
    BY <1>i, <2>1, ChoicesPlaced
  <2> QED
    BY <1>4, <1>5, <2>1, <2>2 DEF Select
<1>6. CASE Deselect
  BY <1>4, <1>6 DEF Deselect
<1> QED
  BY <1>2, <1>3, <1>5, <1>6 DEF UserStep

-----------------------------------------------------------------------------
allVars == <<vars, transcriptVars>>

LEMMA InitInv == TranscriptAssumption /\ TranscriptInit => Inv
<1> SUFFICES ASSUME TranscriptAssumption, TranscriptInit PROVE Inv
  OBVIOUS
<1>m. MaxBlocks \in Nat
  BY DEF TranscriptAssumption
<1>1. TypeOK /\ RunPlaced
  <2>1. log = <<>> /\ open = {} /\ phase = "Ready" /\ cancelled = FALSE /\ result = "None"
    BY DEF TranscriptInit, Init
  <2>2. log \in Seq(Event)
    BY <2>1
  <2>3. open \in SUBSET Calls
    BY <2>1
  <2> QED
    BY <2>1, <2>2, <2>3 DEF TypeOK, RunPlaced
<1>2. Counters /\ phase = "Ready" /\ open = {} /\ pushed = 0
  BY DEF TranscriptInit, Init, Counters
<1>3. PICK t : t = transcript
  OBVIOUS
<1>4. /\ t.blocks = <<>> /\ t.index = [c \in {} |-> 0] /\ t.selected = 0
      /\ t = [blocks |-> <<>>, index |-> [c \in {} |-> 0], selected |-> 0]
  BY <1>3 DEF TranscriptInit
<1>5. t \in Transcripts
  <2>1. [c \in {} |-> 0] \in [{} -> Nat]
    OBVIOUS
  <2>2. [c \in {} |-> 0] \in Indexes
    BY <2>1 DEF Indexes
  <2>3. <<>> \in Seq(Block)
    OBVIOUS
  <2> QED
    BY <1>4, <2>2, <2>3 DEF Transcripts
<1>6. DOMAIN t.blocks = {} /\ DOMAIN t.index = {}
  BY <1>4
<1>7. Good(t, 0)
  BY <1>4, <1>5, <1>6 DEF Good, Placed, Numbered, OfOneRun
<1>8. ToolsShown(t, runs, {}, failed)
  BY <1>6 DEF ToolsShown
<1>9. Fits(t, phase)
  <2>1. Len(t.blocks) = 0
    BY <1>4
  <2> QED
    BY <2>1, <1>m DEF Fits
<1> QED
  BY <1>1, <1>2, <1>3, <1>7, <1>8, <1>9 DEF Inv

LEMMA AfterInv == Follows /\ TypeOK' /\ RunPlaced' /\ Counters' => Inv'
  BY DEF Follows, Inv

LEMMA StepInv ==
  ASSUME TranscriptAssumption
  PROVE  Inv /\ [TranscriptNext]_allVars =>
           Inv' /\ (pushed' # pushed => Stays(transcript, transcript'))
<1> SUFFICES ASSUME Inv, [TranscriptNext]_allVars
             PROVE  Inv' /\ (pushed' # pushed => Stays(transcript, transcript'))
  OBVIOUS
<1>i. TypeOK /\ RunPlaced
  BY DEF Inv
<1>1. CASE RunStep
  <2>1. Follows /\ Counters'
    BY <1>1, RunAfter, RunStepCounts
  <2>2. TypeOK' /\ RunPlaced'
    BY <1>1, <1>i, RunStaysPlaced DEF RunStep
  <2> QED
    BY <2>1, <2>2, AfterInv DEF Follows
<1>2. CASE UserStep
  <2>1. Follows /\ Counters' /\ UNCHANGED vars
    BY <1>2, UserAfter
  <2>2. TypeOK' /\ RunPlaced'
    BY <1>i, <2>1, RunStaysPlaced
  <2> QED
    BY <2>1, <2>2, AfterInv DEF Follows
<1>3. CASE UNCHANGED allVars
  BY <1>3 DEF allVars, vars, transcriptVars, Inv, TypeOK, RunPlaced, Counters
<1> QED
  BY <1>1, <1>2, <1>3 DEF TranscriptNext, UserStep

LEMMA SpecInv == ASSUME TranscriptAssumption PROVE TranscriptSpec => []Inv
<1>1. Inv /\ [TranscriptNext]_<<vars, transcriptVars>> => Inv'
  BY StepInv DEF allVars
<1> QED
  BY <1>1, InitInv, PTL DEF TranscriptSpec

-----------------------------------------------------------------------------
(* Type correctness: every index and the selection are positions of blocks *)
(* that are there (tui/app.rs indexes them without looking).               *)
THEOREM TranscriptTypes == ASSUME TranscriptAssumption PROVE TranscriptSpec => []TranscriptTypeOK
<1>1. Inv => TranscriptTypeOK
  <2> SUFFICES ASSUME Inv PROVE TranscriptTypeOK
    OBVIOUS
  <2>1. TypeOK /\ Placed(transcript) /\ runs \in Nat /\ pushed \in Nat /\ failed \subseteq 1 .. runs
    BY DEF Inv, Good, Counters
  <2>2. transcript.blocks \in Seq(Block) /\ DOMAIN transcript.index \subseteq Calls
    BY <2>1, PlacedParts
  <2> QED
    BY <2>1, <2>2 DEF Placed, TranscriptTypeOK
<1> QED
  BY <1>1, SpecInv, PTL

(* handle_agent_event: the open call has its block, a tool is shown as     *)
(* running only while it is, and text of two runs is never in one block.   *)
THEOREM TranscriptBlocksFaithful ==
  ASSUME TranscriptAssumption PROVE TranscriptSpec => []BlocksFaithful
<1>1. Inv => BlocksFaithful
  <2> SUFFICES ASSUME Inv PROVE BlocksFaithful
    OBVIOUS
  <2>1. ToolsShown(transcript, runs, open, failed) /\ OfOneRun(transcript)
    BY DEF Inv, Good
  <2>2. OpenCallShown
    BY <2>1 DEF OpenCallShown, ToolsShown
  <2>3. TextNotMixed
    <3>1. SUFFICES ASSUME NEW i \in DOMAIN transcript.blocks,
                          NEW r \in transcript.blocks[i].from, NEW s \in transcript.blocks[i].from
                   PROVE  r = s
      BY DEF TextNotMixed
    <3>2. PICK q \in Nat : transcript.blocks[i].from = {q}
      BY <2>1 DEF OfOneRun
    <3> QED
      BY <3>2
  <2> QED
    BY <2>2, <2>3 DEF BlocksFaithful
<1> QED
  BY <1>1, SpecInv, PTL

(* enforce_block_limit: whatever is added and dropped, the selection stays *)
(* on the block that the user chose, or is given up with it.               *)
THEOREM TranscriptSelectionStays ==
  ASSUME TranscriptAssumption PROVE TranscriptSpec => SelectionStays
<1>1. Inv /\ [TranscriptNext]_<<vars, transcriptVars>> =>
        [pushed' # pushed =>
           Chosen(transcript') = IF Shows(transcript', Chosen(transcript))
                                 THEN Chosen(transcript) ELSE 0]_<<vars, transcriptVars>>
  BY StepInv DEF allVars, Stays
<1> QED
  BY <1>1, SpecInv, PTL DEF TranscriptSpec, SelectionStays

(* "the transcript [has] bounded memory" (tui.md): the limit is exceeded   *)
(* only by messages of cancelled commands, between runs.                   *)
THEOREM TranscriptBounded == ASSUME TranscriptAssumption PROVE TranscriptSpec => []BlocksBounded
<1>1. Inv => BlocksBounded
  BY DEF Inv, Fits, BlocksBounded, NotRunning
<1> QED
  BY <1>1, SpecInv, PTL

-----------------------------------------------------------------------------
(***************************************************************************)
(* The editor, which the transcript shares the screen with: InputEditor,   *)
(* for any characters, terminals of any size and texts of any length.      *)
(* First sets of numbers, texts and their two parts.                       *)
(***************************************************************************)

(* A set of numbers has a least one. *)
LEMMA LeastOf ==
  ASSUME NEW S, S \subseteq Nat, S # {}
  PROVE  \E x \in S : \A y \in S : x <= y
<1>1. PICK x \in S : \A y \in S : <<y, x>> \notin OpToRel(<, Nat)
  BY NatLessThanWellFounded, WFMin
<1>2. \A y \in S : ~(y < x)
  BY <1>1 DEF OpToRel
<1>3. \A y \in S : x \in Nat /\ y \in Nat
  OBVIOUS
<1> QED
  BY <1>2, <1>3

(* The least of a set of numbers. *)
LEMMA MinOf ==
  ASSUME NEW S, S \subseteq Nat, S # {}
  PROVE  Min(S) \in S /\ \A y \in S : Min(S) <= y
<1>1. \E x \in S : \A y \in S : x <= y
  BY LeastOf
<1> QED
  BY <1>1 DEF Min

(* The greatest of a bounded set of numbers. *)
LEMMA MaxOf ==
  ASSUME NEW n \in Nat, NEW S, S \subseteq 0 .. n, S # {}
  PROVE  Max(S) \in S /\ \A y \in S : Max(S) >= y
<1> DEFINE T == {n - i : i \in S}
<1>1. T \subseteq Nat /\ T # {}
  <2>1. \A i \in S : n - i \in Nat
    OBVIOUS
  <2>2. PICK i \in S : TRUE
    OBVIOUS
  <2> QED
    BY <2>1, <2>2
<1>2. PICK x \in T : \A y \in T : x <= y
  <2> HIDE DEF T
  <2> QED
    BY <1>1, LeastOf
<1>3. PICK i \in S : x = n - i
  OBVIOUS
<1>4. \A j \in S : i >= j
  <2> TAKE j \in S
  <2>1. n - i <= n - j
    BY <1>2, <1>3
  <2> QED
    BY <2>1
<1> QED
  BY <1>4 DEF Max

(* The greater of two numbers. *)
LEMMA MaxOfTwo ==
  ASSUME NEW a \in Int, NEW b \in Int
  PROVE  Max({a, b}) \in {a, b} /\ Max({a, b}) >= a /\ Max({a, b}) >= b
<1>1. \E x \in {a, b} : \A y \in {a, b} : x >= y
  BY a >= b \/ b >= a
<1> QED
  BY <1>1 DEF Max

(* The lesser of two numbers. *)
LEMMA MinOfTwo ==
  ASSUME NEW a \in Int, NEW b \in Int
  PROVE  Min({a, b}) \in {a, b} /\ Min({a, b}) <= a /\ Min({a, b}) <= b
<1>1. \E x \in {a, b} : \A y \in {a, b} : x <= y
  BY a <= b \/ b <= a
<1> QED
  BY <1>1 DEF Min

(* Texts and their two parts. *)
Edit == [text : Seq(Chars), cursor : Nat, column : Seq(Nat), viewport : Nat]

InText(e) == e \in Edit /\ e.cursor <= Len(e.text)

(* A piece of a text. *)
LEMMA PieceOf ==
  ASSUME NEW S, NEW t \in Seq(S), NEW a \in 0 .. Len(t), NEW b \in a .. Len(t)
  PROVE  /\ SubSeq(t, a + 1, b) \in Seq(S) /\ Len(SubSeq(t, a + 1, b)) = b - a
         /\ DOMAIN SubSeq(t, a + 1, b) = 1 .. b - a
         /\ \A i \in 1 .. b - a : SubSeq(t, a + 1, b)[i] = t[a + i]
<1>1. Len(t) \in Nat /\ a \in Int /\ b \in Int /\ a + 1 \in Int /\ a <= b
  OBVIOUS
<1>2. \A i \in a + 1 .. b : t[i] \in S
  OBVIOUS
<1>3. /\ SubSeq(t, a + 1, b) \in Seq(S)
      /\ Len(SubSeq(t, a + 1, b)) = IF a + 1 <= b THEN b - (a + 1) + 1 ELSE 0
      /\ \A i \in 1 .. b - (a + 1) + 1 : SubSeq(t, a + 1, b)[i] = t[a + 1 + i - 1]
  BY <1>1, <1>2, SubSeqProperties
<1>4. b - (a + 1) + 1 = b - a /\ \A i \in 1 .. b - a : a + 1 + i - 1 = a + i
  BY <1>1
<1>5. Len(SubSeq(t, a + 1, b)) = b - a
  BY <1>1, <1>3
<1> QED
  BY <1>3, <1>4, <1>5

(* A text that is cut in two: the parts, and that they make up the text. *)
LEMMA SplitAt ==
  ASSUME NEW S, NEW t \in Seq(S), NEW c \in 0 .. Len(t)
  PROVE  /\ SubSeq(t, 1, c) \in Seq(S) /\ Len(SubSeq(t, 1, c)) = c
         /\ \A i \in 1 .. c : SubSeq(t, 1, c)[i] = t[i]
         /\ SubSeq(t, c + 1, Len(t)) \in Seq(S) /\ Len(SubSeq(t, c + 1, Len(t))) = Len(t) - c
         /\ \A i \in 1 .. Len(t) - c : SubSeq(t, c + 1, Len(t))[i] = t[c + i]
         /\ SubSeq(t, 1, c) \o SubSeq(t, c + 1, Len(t)) = t
<1>1. Len(t) \in Nat /\ Len(t) \in c .. Len(t) /\ c \in 0 .. Len(t)
  OBVIOUS
<1>2. /\ SubSeq(t, 0 + 1, c) \in Seq(S) /\ Len(SubSeq(t, 0 + 1, c)) = c - 0
      /\ \A i \in 1 .. c - 0 : SubSeq(t, 0 + 1, c)[i] = t[0 + i]
  <2>1. 0 \in 0 .. Len(t) /\ c \in 0 .. Len(t)
    BY <1>1
  <2> QED
    BY <2>1, PieceOf
<1>3. 0 + 1 = 1 /\ c - 0 = c /\ \A i \in 1 .. c : 0 + i = i
  BY <1>1
<1>4. SubSeq(t, 1, c) \o SubSeq(t, c + 1, Len(t)) = SubSeq(t, 1, Len(t))
  <2>1. 1 \in 1 .. Len(t) + 1 /\ c \in 1 - 1 .. Len(t) /\ Len(t) \in c .. Len(t)
    BY <1>1
  <2> QED
    BY <2>1, ConcatAdjacentSubSeq
<1>5. SubSeq(t, 1, Len(t)) = t
  BY SubSeqFull
<1>6. /\ SubSeq(t, c + 1, Len(t)) \in Seq(S) /\ Len(SubSeq(t, c + 1, Len(t))) = Len(t) - c
      /\ \A i \in 1 .. Len(t) - c : SubSeq(t, c + 1, Len(t))[i] = t[c + i]
  BY <1>1, PieceOf
<1> QED
  BY <1>2, <1>3, <1>4, <1>5, <1>6

(* Two texts that are joined can be cut apart where they met. *)
LEMMA SplitJoined ==
  ASSUME NEW S, NEW b \in Seq(S), NEW a \in Seq(S)
  PROVE  /\ b \o a \in Seq(S) /\ Len(b \o a) = Len(b) + Len(a)
         /\ SubSeq(b \o a, 1, Len(b)) = b
         /\ SubSeq(b \o a, Len(b) + 1, Len(b \o a)) = a
<1>1. PICK t : t = b \o a
  OBVIOUS
<1>2. /\ t \in Seq(S) /\ Len(t) = Len(b) + Len(a) /\ Len(b) \in Nat /\ Len(a) \in Nat
      /\ \A i \in 1 .. Len(b) + Len(a) : t[i] = IF i <= Len(b) THEN b[i] ELSE a[i - Len(b)]
  BY <1>1, ConcatProperties
<1>3. Len(b) \in 0 .. Len(t)
  BY <1>2
<1> DEFINE x == SubSeq(t, 1, Len(b))
           y == SubSeq(t, Len(b) + 1, Len(t))
<1>4. x \in Seq(S) /\ Len(x) = Len(b) /\ \A i \in 1 .. Len(b) : x[i] = t[i]
  BY <1>2, <1>3, SplitAt
<1>5. y \in Seq(S) /\ Len(y) = Len(t) - Len(b) /\ \A i \in 1 .. Len(t) - Len(b) : y[i] = t[Len(b) + i]
  BY <1>2, <1>3, SplitAt
<1> HIDE DEF x, y
<1>6. x = b
  <2>1. \A i \in 1 .. Len(b) : x[i] = b[i]
    BY <1>2, <1>4
  <2> QED
    BY <1>4, <2>1, SeqEqual
<1>7. y = a
  <2>1. Len(y) = Len(a) /\ \A i \in 1 .. Len(a) : y[i] = a[i]
    <3>1. Len(y) = Len(a) /\ Len(t) - Len(b) = Len(a)
      BY <1>2, <1>5
    <3>2. ASSUME NEW i \in 1 .. Len(a) PROVE y[i] = a[i]
      <4>1. Len(b) + i \in 1 .. Len(b) + Len(a) /\ ~(Len(b) + i <= Len(b)) /\ Len(b) + i - Len(b) = i
        BY <1>2
      <4>2. y[i] = t[Len(b) + i]
        BY <1>5, <3>1
      <4>3. t[Len(b) + i] = a[Len(b) + i - Len(b)]
        BY <1>2, <4>1
      <4> QED
        BY <4>1, <4>2, <4>3
    <3> QED
      BY <3>1, <3>2
  <2> QED
    BY <1>5, <2>1, SeqEqual
<1> QED
  BY <1>1, <1>2, <1>6, <1>7 DEF x, y

(* The text before the cursor and the text after it. *)
LEMMA PartsOf ==
  ASSUME NEW e, InText(e)
  PROVE  /\ e.text \in Seq(Chars) /\ Len(e.text) \in Nat /\ e.cursor \in 0 .. Len(e.text)
         /\ Before(e) \in Seq(Chars) /\ Len(Before(e)) = e.cursor
         /\ \A i \in 1 .. e.cursor : Before(e)[i] = e.text[i]
         /\ After(e) \in Seq(Chars) /\ Len(After(e)) = Len(e.text) - e.cursor
         /\ \A i \in 1 .. Len(e.text) - e.cursor : After(e)[i] = e.text[e.cursor + i]
         /\ Before(e) \o After(e) = e.text
<1>1. PICK t, c : t = e.text /\ c = e.cursor /\ t \in Seq(Chars) /\ c \in 0 .. Len(t) /\ Len(t) \in Nat
  BY DEF InText, Edit
<1> DEFINE b == SubSeq(t, 1, c)
           a == SubSeq(t, c + 1, Len(t))
<1>2. Before(e) = b /\ After(e) = a
  BY <1>1 DEF Before, After
<1>a. t \in Seq(Chars) /\ c \in 0 .. Len(t)
  BY <1>1
<1>3. b \in Seq(Chars) /\ Len(b) = c /\ \A i \in 1 .. c : b[i] = t[i]
  BY <1>a, SplitAt
<1>4. a \in Seq(Chars) /\ Len(a) = Len(t) - c /\ \A i \in 1 .. Len(t) - c : a[i] = t[c + i]
  BY <1>a, SplitAt
<1>5. b \o a = t
  BY <1>a, SplitAt
<1> HIDE DEF a, b
<1> QED
  BY <1>1, <1>2, <1>3, <1>4, <1>5

(* What insert_char and every other edit leave: the two texts they join, the
   cursor between them, and no preferred column. *)
LEMMA JoinedAt ==
  ASSUME NEW e \in Edit, NEW b \in Seq(Chars), NEW a \in Seq(Chars)
  PROVE  /\ InText(Place(e, b, a))
         /\ Place(e, b, a).text = b \o a
         /\ Before(Place(e, b, a)) = b /\ After(Place(e, b, a)) = a
         /\ Place(e, b, a).column = <<>>
<1> DEFINE t == b \o a
           n == Len(b)
<1>1. t \in Seq(Chars) /\ Len(t) = n + Len(a) /\ n \in Nat /\ Len(a) \in Nat
  BY SplitJoined
<1>5. SubSeq(t, 1, n) = b /\ SubSeq(t, n + 1, Len(t)) = a
  BY SplitJoined
<1>2. PICK f : f = [e EXCEPT !.text = t, !.cursor = n, !.column = <<>>]
  OBVIOUS
<1>3. f = Place(e, b, a)
  BY <1>2 DEF Place, NoColumn
<1> HIDE DEF t, n
<1>4. f.text = t /\ f.cursor = n /\ f.column = <<>> /\ f \in Edit
  <2>1. <<>> \in Seq(Nat)
    OBVIOUS
  <2> QED
    BY <1>1, <1>2, <2>1 DEF Edit
<1> QED
  <2>1. Before(f) = SubSeq(t, 1, n) /\ After(f) = SubSeq(t, n + 1, Len(t))
    BY <1>4 DEF Before, After
  <2>2. InText(f)
    BY <1>1, <1>4 DEF InText
  <2> QED
    BY <1>3, <1>4, <1>5, <2>1, <2>2 DEF t

-----------------------------------------------------------------------------
(* The lines of a text. *)

(* The line that runs from a to b, both counting the characters before them,
   holds the place c of a text of n characters whose line ends are N. *)
InLine(N, n, c, a, b) ==
  /\ a \in {0} \cup N /\ b \in Nat /\ a <= c /\ c <= b /\ b <= n
  /\ b = n \/ b + 1 \in N
  /\ \A k \in N : k <= a \/ k > b

(* The ends of that line as line_start and line_end find them, and the number
   of line ends before a place. *)
LineFrom(N, c)  == Max({0} \cup {k \in N : k <= c})
LineTo(N, n, c) == Min({n} \cup {k - 1 : k \in {j \in N : j > c}})
UpTo(N, k)      == Cardinality({j \in N : j <= k})

(* A place is in one line only. *)
LEMMA OneLine ==
  ASSUME NEW n \in Nat, NEW N, N \subseteq 1 .. n, NEW c \in 0 .. n,
         NEW a, NEW b, InLine(N, n, c, a, b), NEW g, NEW h, InLine(N, n, c, g, h)
  PROVE  a = g /\ b = h
<1>1. /\ a \in Nat /\ g \in Nat /\ b \in Nat /\ h \in Nat /\ c \in Nat
      /\ a <= c /\ c <= b /\ g <= c /\ c <= h /\ b <= n /\ h <= n
      /\ a = 0 \/ a \in N
      /\ g = 0 \/ g \in N
      /\ b = n \/ b + 1 \in N
      /\ h = n \/ h + 1 \in N
      /\ \A k \in N : k <= a \/ k > b
      /\ \A k \in N : k <= g \/ k > h
  BY DEF InLine
<1>2. a <= g
  BY <1>1
<1>3. g <= a
  BY <1>1
<1>4. b <= h
  BY <1>1
<1>5. h <= b
  BY <1>1
<1> QED
  BY <1>1, <1>2, <1>3, <1>4, <1>5

(* What line_start and line_end find is the line of the place. *)
LEMMA LineOf ==
  ASSUME NEW n \in Nat, NEW N, N \subseteq 1 .. n, NEW c \in 0 .. n
  PROVE  InLine(N, n, c, LineFrom(N, c), LineTo(N, n, c))
<1> DEFINE A == {0} \cup {k \in N : k <= c}
           B == {n} \cup {k - 1 : k \in {j \in N : j > c}}
           a == Max(A)
           b == Min(B)
<1>1. a \in A /\ \A y \in A : a >= y
  <2>0. \A j \in N : j \in 0 .. n
    OBVIOUS
  <2>1. A \subseteq 0 .. n /\ A # {}
    <3>1. 0 \in 0 .. n
      OBVIOUS
    <3> QED
      BY <2>0, <3>1, Zenon
  <2> HIDE DEF A
  <2> QED
    BY <2>1, MaxOf
<1>2. b \in B /\ \A y \in B : b <= y
  <2>1. B \subseteq Nat /\ B # {}
    <3>1. ASSUME NEW k \in N, k > c PROVE k - 1 \in Nat
      BY <3>1
    <3> QED
      BY <3>1
  <2> HIDE DEF B
  <2> QED
    BY <2>1, MinOf
<1> HIDE DEF a, b
<1>3. a \in {0} \cup N /\ a <= c
  BY <1>1
<1>4. b \in Nat /\ c <= b /\ b <= n /\ (b = n \/ b + 1 \in N)
  <2>1. b <= n
    BY <1>2
  <2>2. CASE b = n
    BY <2>1, <2>2
  <2>3. CASE b # n
    <3>1. PICK k \in N : k > c /\ b = k - 1
      BY <1>2, <2>3
    <3>2. k \in 1 .. n
      OBVIOUS
    <3> QED
      BY <2>1, <3>1, <3>2
  <2> QED
    BY <2>2, <2>3
<1>5. ASSUME NEW k \in N PROVE k <= a \/ k > b
  <2>1. CASE k <= c
    BY <1>1, <2>1
  <2>2. CASE k > c
    <3>1. k - 1 \in B
      BY <2>2
    <3>2. b <= k - 1
      BY <1>2, <3>1
    <3> QED
      BY <1>4, <3>2
  <2> QED
    BY <2>1, <2>2
<1> QED
  BY <1>3, <1>4, <1>5 DEF InLine, LineFrom, LineTo, a, b

(* Hence any line with that place is the one they find. *)
LEMMA LineIs ==
  ASSUME NEW n \in Nat, NEW N, N \subseteq 1 .. n, NEW c \in 0 .. n,
         NEW a, NEW b, InLine(N, n, c, a, b)
  PROVE  a = LineFrom(N, c) /\ b = LineTo(N, n, c)
BY LineOf, OneLine

(* How many line ends there are up to a place. *)
LEMMA EndsCounted ==
  ASSUME NEW n \in Nat, NEW N, N \subseteq 1 .. n, NEW k \in Nat
  PROVE  /\ IsFiniteSet(N) /\ Cardinality(N) \in Nat
         /\ IsFiniteSet({j \in N : j <= k}) /\ UpTo(N, k) \in Nat /\ UpTo(N, k) <= Cardinality(N)
         /\ UpTo(N, 0) = 0
         /\ (\A j \in N : j <= k) => UpTo(N, k) = Cardinality(N)
<1>1. IsFiniteSet(1 .. n)
  BY FS_Interval
<1>2. IsFiniteSet(N)
  BY <1>1, FS_Subset
<1> DEFINE M == {j \in N : j <= k}
<1>3. M \subseteq N
  OBVIOUS
<1> HIDE DEF M
<1>4. IsFiniteSet(M) /\ Cardinality(M) <= Cardinality(N) /\ Cardinality(M) \in Nat /\ Cardinality(N) \in Nat
  BY <1>2, <1>3, FS_Subset, FS_CardinalityType
<1>5. {j \in N : j <= 0} = {}
  <2>1. \A j \in N : j \in Nat /\ j >= 1 /\ j <= n
    OBVIOUS
  <2>2. \A j \in N : ~(j <= 0)
    BY <2>1
  <2> QED
    BY <2>2, Zenon
<1>6. UpTo(N, 0) = 0
  BY <1>5, FS_EmptySet DEF UpTo
<1>7. (\A j \in N : j <= k) => M = N
  BY DEF M
<1> QED
  BY <1>2, <1>4, <1>6, <1>7 DEF UpTo, M

(* There are more of them behind a line end. *)
LEMMA CountGrows ==
  ASSUME NEW n \in Nat, NEW N, N \subseteq 1 .. n, NEW k \in Nat, NEW l \in N, k < l
  PROVE  UpTo(N, k) < UpTo(N, l)
<1> DEFINE M == {j \in N : j <= k}
           L == {j \in N : j <= l}
<1>1. l \in Nat /\ l \notin M /\ M \cup {l} \subseteq L
  <2>1. \A j \in N : j \in Nat /\ j >= 1 /\ j <= n
    OBVIOUS
  <2>2. l <= l /\ ~(l <= k) /\ \A j \in N : j <= k => j <= l
    BY <2>1
  <2> QED
    BY <2>1, <2>2, Zenon
<1>2. /\ IsFiniteSet(M) /\ IsFiniteSet(L) /\ Cardinality(M) \in Nat /\ Cardinality(L) \in Nat
  BY <1>1, EndsCounted DEF UpTo
<1> HIDE DEF M, L
<1>3. Cardinality(M \cup {l}) = Cardinality(M) + 1
  BY <1>1, <1>2, FS_AddElement
<1>4. Cardinality(M \cup {l}) <= Cardinality(L)
  BY <1>1, <1>2, FS_Subset
<1> QED
  BY <1>2, <1>3, <1>4 DEF UpTo, M, L

(* There are as many up to all places of a line. *)
LEMMA CountInLine ==
  ASSUME NEW n \in Nat, NEW N, N \subseteq 1 .. n, NEW c \in 0 .. n, NEW d \in 0 .. n,
         NEW a, NEW b, InLine(N, n, c, a, b), a <= d, d <= b
  PROVE  UpTo(N, c) = UpTo(N, d)
<1>1. \A j \in N : j \in Nat /\ j >= 1 /\ j <= n
  OBVIOUS
<1>2. ASSUME NEW j \in N PROVE j <= c <=> j <= d
  <2>1. /\ j <= a \/ j > b
        /\ j \in Nat /\ c \in Nat /\ d \in Nat /\ b \in Nat /\ a \in Nat
        /\ a <= c /\ c <= b /\ a <= d /\ d <= b
    BY <1>1 DEF InLine
  <2> QED
    BY <2>1
<1>3. {j \in N : j <= c} = {j \in N : j <= d}
  BY <1>2
<1> QED
  BY <1>3 DEF UpTo

(* Every line number up to the number of line ends is that of a line. *)
LEMMA LineExists ==
  ASSUME NEW n \in Nat, NEW N, N \subseteq 1 .. n, NEW line \in 0 .. Cardinality(N)
  PROVE  \E k \in {0} \cup N : UpTo(N, k) = line
<1> DEFINE Found(l) == \E k \in {0} \cup N : UpTo(N, k) = l
           Missing == {l \in 0 .. Cardinality(N) : ~Found(l)}
<1>1. Cardinality(N) \in Nat /\ UpTo(N, 0) = 0
  BY EndsCounted
<1>2. Missing = {}
  <2> SUFFICES ASSUME Missing # {} PROVE FALSE
    OBVIOUS
  <2>1. PICK l \in Missing : \A m \in Missing : l <= m
    <3>1. Missing \subseteq Nat
      BY <1>1
    <3> HIDE DEF Missing
    <3> QED
      BY <3>1, LeastOf
  <2>2. l \in 0 .. Cardinality(N) /\ ~Found(l) /\ l # 0
    BY <1>1, <2>1
  <2>3. Found(l - 1)
    <3> HIDE DEF Found
    <3>1. l - 1 \in 0 .. Cardinality(N) /\ ~(l <= l - 1)
      BY <1>1, <2>2
    <3> QED
      BY <2>1, <3>1
  <2>4. PICK k \in {0} \cup N : UpTo(N, k) = l - 1
    BY <2>3
  <2>5. k \in Nat
    OBVIOUS
  <2> DEFINE Rest == {j \in N : j > k}
  <2>6. Rest \subseteq Nat /\ Rest # {}
    <3>0. \A j \in N : j \in Nat /\ j >= 1 /\ j <= n
      OBVIOUS
    <3>1. ASSUME Rest = {} PROVE FALSE
      <4>1. \A j \in N : j <= k
        BY <2>5, <3>0, <3>1
      <4>2. UpTo(N, k) = Cardinality(N)
        BY <2>5, <4>1, EndsCounted
      <4> QED
        BY <1>1, <2>2, <2>4, <4>2
    <3> QED
      BY <3>0, <3>1
  <2>7. PICK m \in Rest : \A j \in Rest : m <= j
    <3> HIDE DEF Rest
    <3> QED
      BY <2>6, LeastOf
  <2>8. m \in N /\ m \in Nat /\ m \notin {j \in N : j <= k}
        /\ {j \in N : j <= m} = {j \in N : j <= k} \cup {m}
    <3>0. \A j \in N : j \in Nat /\ j >= 1 /\ j <= n
      OBVIOUS
    <3>1. m \in N /\ m \in Nat /\ m > k /\ \A j \in N : j > k => m <= j
      BY <2>7, <3>0
    <3>3. ~(m <= k)
      BY <2>5, <3>1
    <3>2. \A j \in N : j <= m <=> j <= k \/ j = m
      BY <2>5, <3>0, <3>1
    <3> QED
      BY <3>1, <3>2, <3>3, Zenon
  <2>9. UpTo(N, m) = UpTo(N, k) + 1
    <3>1. IsFiniteSet({j \in N : j <= k})
      BY <2>5, EndsCounted
    <3> QED
      BY <2>8, <3>1, FS_AddElement DEF UpTo
  <2>10. Found(l)
    BY <2>2, <2>4, <2>8, <2>9
  <2> QED
    BY <2>2, <2>10
<1> QED
  BY <1>2

-----------------------------------------------------------------------------
(* The width of a text, and how far a preferred column leads. *)

(* The wide characters of a piece of a text, and the width of the piece. *)
Wides(t, a, i) == {k \in 1 .. i - a : t[a + k] = "wide"}
WidthFrom(t, a, i) == WidthOf(SubSeq(t, a + 1, i))

(* The width of a piece is its length and one more for each wide character. *)
LEMMA WidthIs ==
  ASSUME NEW t \in Seq(Chars), NEW a \in 0 .. Len(t), NEW i \in a .. Len(t)
  PROVE  /\ WidthFrom(t, a, i) = (i - a) + Cardinality(Wides(t, a, i))
         /\ IsFiniteSet(Wides(t, a, i)) /\ Cardinality(Wides(t, a, i)) \in Nat
<1> DEFINE s == SubSeq(t, a + 1, i)
<1>1. Len(s) = i - a /\ DOMAIN s = 1 .. i - a /\ \A k \in 1 .. i - a : s[k] = t[a + k]
  BY PieceOf
<1> HIDE DEF s
<1>2. {k \in DOMAIN s : s[k] = "wide"} = Wides(t, a, i)
  BY <1>1 DEF Wides
<1>3. IsFiniteSet(1 .. i - a)
  <2>1. 1 \in Int /\ i - a \in Int
    OBVIOUS
  <2> QED
    BY <2>1, FS_Interval
<1>4. Wides(t, a, i) \subseteq 1 .. i - a
  BY DEF Wides
<1>5. IsFiniteSet(Wides(t, a, i)) /\ Cardinality(Wides(t, a, i)) \in Nat
  BY <1>3, <1>4, FS_Subset, FS_CardinalityType
<1>6. WidthOf(s) = Len(s) + Cardinality({k \in DOMAIN s : s[k] = "wide"})
  BY DEF WidthOf
<1> QED
  BY <1>1, <1>2, <1>5, <1>6 DEF WidthFrom, s

(* A longer piece is wider. *)
LEMMA WidthGrows ==
  ASSUME NEW t \in Seq(Chars), NEW a \in 0 .. Len(t), NEW i \in a .. Len(t), NEW j \in i + 1 .. Len(t)
  PROVE  WidthFrom(t, a, i) < WidthFrom(t, a, j)
<1>1. /\ Len(t) \in Nat /\ a \in Nat /\ i \in Nat /\ j \in Nat /\ a <= i /\ i < j /\ j <= Len(t)
      /\ j \in a .. Len(t)
  OBVIOUS
<1>2. /\ WidthFrom(t, a, i) = (i - a) + Cardinality(Wides(t, a, i))
      /\ Cardinality(Wides(t, a, i)) \in Nat
  BY WidthIs
<1>3. /\ WidthFrom(t, a, j) = (j - a) + Cardinality(Wides(t, a, j))
      /\ IsFiniteSet(Wides(t, a, j)) /\ Cardinality(Wides(t, a, j)) \in Nat
  BY <1>1, WidthIs
<1>4. Wides(t, a, i) \subseteq Wides(t, a, j)
  <2>1. \A k \in 1 .. i - a : k \in 1 .. j - a
    BY <1>1
  <2> QED
    BY <2>1, Zenon DEF Wides
<1>5. Cardinality(Wides(t, a, i)) <= Cardinality(Wides(t, a, j))
  BY <1>3, <1>4, FS_Subset
<1> QED
  BY <1>1, <1>2, <1>3, <1>5

(* An empty piece has no width. *)
LEMMA NoWidth ==
  ASSUME NEW t \in Seq(Chars), NEW a \in 0 .. Len(t)
  PROVE  WidthFrom(t, a, a) = 0
<1>1. a \in a .. Len(t) /\ a - a = 0 /\ 1 .. 0 = {}
  OBVIOUS
<1>2. Wides(t, a, a) = {}
  BY <1>1 DEF Wides
<1> QED
  BY <1>1, <1>2, WidthIs, FS_EmptySet

(* Where in a line the cursor may stand at most d columns from its start. *)
Fitting(t, a, b, d) == {i \in a .. b : WidthFrom(t, a, i) <= d}

(* The furthest of these is in the line, and is any that stands at d exactly. *)
LEMMA FitsBest ==
  ASSUME NEW t \in Seq(Chars), NEW a \in 0 .. Len(t), NEW b \in a .. Len(t), NEW d \in Nat
  PROVE  /\ Max(Fitting(t, a, b, d)) \in a .. b
         /\ \A c \in a .. b : WidthFrom(t, a, c) = d => c = Max(Fitting(t, a, b, d))
<1>1. /\ a \in a .. b /\ WidthFrom(t, a, a) = 0 /\ 0 <= d
      /\ Len(t) \in Nat /\ b \in Nat /\ a \in Nat /\ b <= Len(t)
  BY NoWidth
<1> DEFINE F == Fitting(t, a, b, d)
<1>2. F \subseteq a .. b /\ a \in F /\ \A i \in a .. b : i \in F <=> WidthFrom(t, a, i) <= d
  BY <1>1 DEF Fitting
<1> HIDE DEF F
<1>3. Max(F) \in F /\ \A y \in F : Max(F) >= y
  <2>1. F \subseteq 0 .. b /\ F # {}
    BY <1>1, <1>2
  <2> QED
    BY <1>1, <2>1, MaxOf
<1>4. ASSUME NEW c \in a .. b, WidthFrom(t, a, c) = d PROVE c = Max(F)
  <2>1. c \in F
    BY <1>2, <1>4
  <2>2. PICK m \in a .. b : m = Max(F) /\ WidthFrom(t, a, m) <= d /\ m >= c
    BY <1>2, <1>3, <2>1
  <2>3. CASE m > c
    <3>1. c \in a .. Len(t) /\ m \in c + 1 .. Len(t)
      BY <1>1, <2>3
    <3>2. WidthFrom(t, a, c) < WidthFrom(t, a, m)
      BY <3>1, WidthGrows
    <3>3. WidthFrom(t, a, m) \in Nat
      <4>1. m \in a .. Len(t)
        BY <1>1
      <4>2. m - a \in Nat
        BY <1>1
      <4> QED
        BY <4>1, <4>2, WidthIs
    <3> QED
      BY <1>4, <2>2, <3>2, <3>3
  <2> QED
    BY <1>1, <2>2, <2>3
<1> QED
  BY <1>2, <1>3, <1>4 DEF F

(* The editor's lines in these terms. *)
LEMMA EditorLines ==
  ASSUME NEW e
  PROVE  /\ LineStart(e) = LineFrom(Newlines(e), e.cursor)
         /\ LineEnd(e) = LineTo(Newlines(e), Len(e.text), e.cursor)
         /\ CurrentLine(e) = UpTo(Newlines(e), e.cursor)
         /\ Lines(e) = Cardinality(Newlines(e)) + 1
<1>1. LineStart(e) = LineFrom(Newlines(e), e.cursor)
  BY DEF LineStart, LineFrom
<1>2. LineEnd(e) = LineTo(Newlines(e), Len(e.text), e.cursor)
  BY DEF LineEnd, LineTo
<1>3. CurrentLine(e) = UpTo(Newlines(e), e.cursor)
  BY DEF CurrentLine, UpTo
<1>4. Lines(e) = Cardinality(Newlines(e)) + 1
  BY DEF Lines
<1> QED
  BY <1>1, <1>2, <1>3, <1>4

(* Line ends are characters of the text. *)
LEMMA NewlinesIn ==
  ASSUME NEW e, InText(e)
  PROVE  /\ Newlines(e) \subseteq 1 .. Len(e.text)
         /\ Len(e.text) \in Nat /\ e.cursor \in 0 .. Len(e.text) /\ e.text \in Seq(Chars)
<1>1. e.text \in Seq(Chars) /\ DOMAIN e.text = 1 .. Len(e.text) /\ Len(e.text) \in Nat
      /\ e.cursor \in 0 .. Len(e.text)
  BY DEF InText, Edit
<1> QED
  BY <1>1 DEF Newlines

(* line_bounds finds the line whose number it is given. *)
LEMMA BoundsFor ==
  ASSUME NEW e, InText(e), NEW a, NEW b,
         InLine(Newlines(e), Len(e.text), a, a, b)
  PROVE  BoundsOf(e, UpTo(Newlines(e), a)) = [start |-> a, end |-> b]
<1> DEFINE N == Newlines(e)
           n == Len(e.text)
           start == CHOOSE k \in {0} \cup N : Cardinality({j \in N : j <= k}) = UpTo(N, a)
           g == [e EXCEPT !.cursor = start]
<1>1. N \subseteq 1 .. n /\ n \in Nat /\ e \in Edit
  BY NewlinesIn DEF InText
<1>2. g.text = e.text /\ g.cursor = start /\ Newlines(g) = N
  BY <1>1 DEF Edit, Newlines
<1>3. BoundsOf(e, UpTo(N, a)) = [start |-> start, end |-> LineEnd(g)]
  BY DEF BoundsOf
<1> HIDE DEF g
<1>4. start \in {0} \cup N /\ UpTo(N, start) = UpTo(N, a)
  <2>1. a \in {0} \cup N
    BY DEF InLine
  <2>2. \A k : Cardinality({j \in N : j <= k}) = UpTo(N, k)
    BY DEF UpTo
  <2> HIDE DEF N
  <2>3. start \in {0} \cup N /\ Cardinality({j \in N : j <= start}) = UpTo(N, a)
    BY <2>1, <2>2
  <2> QED
    BY <2>2, <2>3
<1> HIDE DEF start, N, n
<1>5. start = a
  <2>1. a \in {0} \cup N /\ a \in Nat /\ start \in Nat
    BY <1>1, <1>4 DEF InLine, N
  <2>2. CASE start < a
    <3>1. a \in N
      BY <1>4, <2>1, <2>2
    <3>2. UpTo(N, start) < UpTo(N, a) /\ UpTo(N, a) \in Nat
      BY <1>1, <2>1, <2>2, <3>1, CountGrows, EndsCounted
    <3> QED
      BY <1>4, <3>2
  <2>3. CASE a < start
    <3>1. start \in N
      BY <1>4, <2>1, <2>3
    <3>2. UpTo(N, a) < UpTo(N, start) /\ UpTo(N, a) \in Nat
      BY <1>1, <2>1, <2>3, <3>1, CountGrows, EndsCounted
    <3> QED
      BY <1>4, <3>2
  <2> QED
    BY <2>1, <2>2, <2>3
<1>6. LineEnd(g) = b
  <2>1. InLine(N, n, a, a, b) /\ a \in 0 .. n
    BY <1>1 DEF InLine, N, n
  <2>2. b = LineTo(N, n, a)
    BY <1>1, <2>1, LineIs
  <2>3. LineEnd(g) = LineTo(N, n, a)
    BY <1>2, <1>5, EditorLines DEF n
  <2> QED
    BY <2>2, <2>3
<1> QED
  BY <1>3, <1>5, <1>6 DEF N

(* There is such a line for every number below the number of lines. *)
LEMMA BoundsAre ==
  ASSUME NEW e, InText(e), NEW line \in Nat, line < Lines(e)
  PROVE  \E a, b : /\ BoundsOf(e, line) = [start |-> a, end |-> b]
                   /\ InLine(Newlines(e), Len(e.text), a, a, b)
                   /\ UpTo(Newlines(e), a) = line
<1> DEFINE N == Newlines(e)
           n == Len(e.text)
<1>1. N \subseteq 1 .. n /\ n \in Nat
  BY NewlinesIn
<1>2. line \in 0 .. Cardinality(N)
  <2>1. Cardinality(N) \in Nat
    <3>1. 0 \in Nat
      OBVIOUS
    <3> HIDE DEF N, n
    <3> QED
      BY <1>1, <3>1, EndsCounted
  <2> QED
    BY <2>1, EditorLines
<1>3. PICK a \in {0} \cup N : UpTo(N, a) = line
  <2> HIDE DEF N, n
  <2> QED
    BY <1>1, <1>2, LineExists
<1>4. PICK b : InLine(N, n, a, a, b)
  <2>1. a \in 0 .. n
    BY <1>1
  <2> HIDE DEF N, n
  <2>2. PICK g : g = LineFrom(N, a)
    OBVIOUS
  <2>3. InLine(N, n, a, g, LineTo(N, n, a))
    BY <1>1, <2>1, <2>2, LineOf
  <2>4. g = a
    <3>1. /\ g \in Nat /\ a \in Nat /\ g <= a /\ a <= LineTo(N, n, a)
          /\ \A k \in N : k <= g \/ k > LineTo(N, n, a)
          /\ LineTo(N, n, a) \in Nat
      BY <1>1, <2>1, <2>3 DEF InLine
    <3>2. CASE a = 0
      BY <3>1, <3>2
    <3>3. CASE a \in N
      BY <3>1, <3>3
    <3> QED
      BY <3>2, <3>3
  <2> QED
    BY <2>3, <2>4
<1>5. BoundsOf(e, line) = [start |-> a, end |-> b]
  BY <1>3, <1>4, BoundsFor
<1> QED
  BY <1>3, <1>4, <1>5

-----------------------------------------------------------------------------
(* The preferred column. *)

(* The column that move_vertical goes for, the furthest place of the line it
   is reached with, and the strengthening: a preferred column is kept only while
   the cursor stands at the furthest place that it allows, so that it is never
   one of an earlier position. *)
Desired(e) ==
  IF e.column # <<>> THEN e.column[1] ELSE WidthFrom(e.text, LineStart(e), e.cursor)

Furthest(e, d) == Max(Fitting(e.text, LineStart(e), LineEnd(e), d))

Settled(e) == e.column # <<>> => e.cursor = Furthest(e, e.column[1])

(* The cursor is in its line. *)
LEMMA LinePlace ==
  ASSUME NEW e, InText(e)
  PROVE  /\ InLine(Newlines(e), Len(e.text), e.cursor, LineStart(e), LineEnd(e))
         /\ LineStart(e) \in 0 .. Len(e.text)
         /\ LineEnd(e) \in LineStart(e) .. Len(e.text)
         /\ e.cursor \in LineStart(e) .. LineEnd(e)
<1>1. PICK N, n, c, a, b : /\ N = Newlines(e) /\ n = Len(e.text) /\ c = e.cursor
                           /\ a = LineStart(e) /\ b = LineEnd(e)
  OBVIOUS
<1>2. N \subseteq 1 .. n /\ n \in Nat /\ c \in 0 .. n
  BY <1>1, NewlinesIn
<1>3. InLine(N, n, c, a, b)
  BY <1>1, <1>2, LineOf, EditorLines
<1>4. a \in Nat /\ b \in Nat /\ a <= c /\ c <= b /\ b <= n
  BY <1>2, <1>3 DEF InLine
<1>5. a \in 0 .. n /\ b \in a .. n /\ c \in a .. b
  BY <1>2, <1>4
<1> QED
  BY <1>1, <1>3, <1>5

(* The cursor stands where a move to its own line would put it. *)
LEMMA DesiredHere ==
  ASSUME NEW e, InText(e), Settled(e)
  PROVE  Desired(e) \in Nat /\ e.cursor = Furthest(e, Desired(e))
<1>1. CASE e.column # <<>>
  <2>1. e.column[1] \in Nat
    BY <1>1 DEF InText, Edit
  <2> QED
    BY <1>1, <2>1 DEF Desired, Settled
<1>2. CASE e.column = <<>>
  <2> DEFINE t == e.text
             a == LineStart(e)
             b == LineEnd(e)
             d == WidthFrom(t, a, e.cursor)
  <2>1. t \in Seq(Chars) /\ a \in 0 .. Len(t) /\ b \in a .. Len(t) /\ e.cursor \in a .. b
    BY LinePlace, NewlinesIn
  <2>2. Desired(e) = d
    BY <1>2 DEF Desired
  <2> HIDE DEF t, a, b
  <2>3. d \in Nat
    <3>1. e.cursor \in a .. Len(t) /\ e.cursor - a \in Nat
      BY <2>1
    <3>2. d = (e.cursor - a) + Cardinality(Wides(t, a, e.cursor)) /\ Cardinality(Wides(t, a, e.cursor)) \in Nat
      BY <2>1, <3>1, WidthIs
    <3> HIDE DEF d
    <3> QED
      BY <3>1, <3>2
  <2> HIDE DEF d
  <2>4. e.cursor = Max(Fitting(t, a, b, d))
    BY <2>1, <2>3, FitsBest DEF d
  <2> QED
    BY <2>2, <2>3, <2>4 DEF Furthest, t, a, b
<1> QED
  BY <1>1, <1>2

(* move_vertical to a line that is there. *)
LEMMA VerticalIs ==
  ASSUME NEW e, NEW line, NEW a, NEW b, line < Lines(e), ~(line >= Lines(e)),
         BoundsOf(e, line) = [start |-> a, end |-> b]
  PROVE  MoveVertical(e, line)
           = [e EXCEPT !.cursor = Max(Fitting(e.text, a, b, Desired(e))), !.column = <<Desired(e)>>]
BY DEF MoveVertical, Desired, Fitting, WidthFrom, NoColumn

(* The cursor after it. *)
LEMMA VerticalCursor ==
  ASSUME NEW e, InText(e), NEW line, NEW a, NEW b, line < Lines(e), ~(line >= Lines(e)),
         BoundsOf(e, line) = [start |-> a, end |-> b]
  PROVE  MoveVertical(e, line).cursor = Max(Fitting(e.text, a, b, Desired(e)))
<1>1. MoveVertical(e, line)
        = [e EXCEPT !.cursor = Max(Fitting(e.text, a, b, Desired(e))), !.column = <<Desired(e)>>]
  BY VerticalIs
<1> QED
  BY <1>1 DEF InText, Edit

(* It leads to that line, and goes on wanting the same column. *)
LEMMA VerticalKeeps ==
  ASSUME NEW e, InText(e), Settled(e), NEW line \in Nat, line < Lines(e), NEW f,
         f = MoveVertical(e, line)
  PROVE  /\ InText(f) /\ Settled(f) /\ f.text = e.text
         /\ Desired(f) = Desired(e) /\ CurrentLine(f) = line
<1> DEFINE N == Newlines(e)
           n == Len(e.text)
           d == Desired(e)
<1>1. N \subseteq 1 .. n /\ n \in Nat /\ e.text \in Seq(Chars) /\ d \in Nat
  BY NewlinesIn, DesiredHere
<1>2. PICK a, b : BoundsOf(e, line) = [start |-> a, end |-> b] /\ InLine(N, n, a, a, b) /\ UpTo(N, a) = line
  BY BoundsAre
<1>3. ~(line >= Lines(e))
  <2>1. Lines(e) \in Nat
    <3>1. Cardinality(N) \in Nat
      <4>1. 0 \in Nat
        OBVIOUS
      <4> HIDE DEF N, n
      <4> QED
        BY <1>1, <4>1, EndsCounted
    <3> QED
      BY <3>1, EditorLines
  <2> QED
    BY <2>1
<1> DEFINE m == Max(Fitting(e.text, a, b, d))
<1>4. f = [e EXCEPT !.cursor = m, !.column = <<d>>]
  BY <1>2, <1>3, VerticalIs
<1>5. a \in 0 .. n /\ b \in a .. n
  <2> HIDE DEF N, n
  <2> QED
    BY <1>1, <1>2 DEF InLine
<1>6. m \in a .. b
  BY <1>1, <1>5, FitsBest
<1> HIDE DEF d, m
<1>7. /\ f.text = e.text /\ f.cursor = m /\ f.column = <<d>> /\ InText(f)
      /\ f.column # <<>> /\ f.column[1] = d
  <2>1. m \in Nat /\ m <= n
    BY <1>1, <1>5, <1>6
  <2>2. <<d>> \in Seq(Nat) /\ <<d>> # <<>> /\ <<d>>[1] = d
    BY <1>1
  <2> QED
    BY <1>4, <2>1, <2>2 DEF InText, Edit
<1>8. Newlines(f) = N
  BY <1>7 DEF Newlines
<1> HIDE DEF N, n
<1>9. InLine(N, n, m, a, b) /\ m \in 0 .. n
  BY <1>1, <1>2, <1>5, <1>6 DEF InLine
<1>10. LineStart(f) = a /\ LineEnd(f) = b
  <2>1. a = LineFrom(N, m) /\ b = LineTo(N, n, m)
    BY <1>1, <1>9, LineIs
  <2> QED
    BY <1>7, <1>8, <2>1, EditorLines DEF n
<1>11. CurrentLine(f) = line
  <2>1. UpTo(N, m) = UpTo(N, a)
    <3>1. a <= a /\ a <= b
      BY <1>1, <1>5
    <3> QED
      BY <1>1, <1>5, <1>9, <3>1, CountInLine
  <2> QED
    BY <1>2, <1>7, <1>8, <2>1, EditorLines
<1>12. Settled(f) /\ Desired(f) = d
  <2>1. Furthest(f, d) = m
    BY <1>7, <1>10 DEF Furthest, m
  <2> QED
    BY <1>7, <2>1 DEF Settled, Desired
<1> QED
  BY <1>7, <1>11, <1>12 DEF d

(* From any place that wants the same column the way back leads to the cursor. *)
LEMMA BackAgain ==
  ASSUME NEW e, InText(e), Settled(e), NEW f, InText(f), f.text = e.text, Desired(f) = Desired(e)
  PROVE  MoveVertical(f, CurrentLine(e)).cursor = e.cursor
<1> DEFINE N == Newlines(e)
           n == Len(e.text)
           a == LineStart(e)
           b == LineEnd(e)
           c == CurrentLine(e)
<1>1. InText(f) /\ f.text = e.text /\ Desired(f) = Desired(e)
  OBVIOUS
<1>2. Newlines(f) = N /\ Len(f.text) = n
  BY <1>1 DEF Newlines
<1>3. N \subseteq 1 .. n /\ n \in Nat /\ e.cursor \in 0 .. n
  BY NewlinesIn
<1>4. InLine(N, n, e.cursor, a, b) /\ a \in 0 .. n /\ b \in a .. n
  BY LinePlace
<1>5. c = UpTo(N, e.cursor)
  BY EditorLines
<1>6. Lines(f) = Cardinality(N) + 1
  BY <1>2, EditorLines
<1> HIDE DEF N, n, a, b, c
<1>7. InLine(N, n, a, a, b)
  BY <1>3, <1>4 DEF InLine
<1>8. c = UpTo(N, a)
  <2>1. a <= a /\ a <= b
    BY <1>3, <1>4
  <2> QED
    BY <1>3, <1>4, <1>5, <2>1, CountInLine
<1>9. BoundsOf(f, c) = [start |-> a, end |-> b]
  BY <1>1, <1>2, <1>7, <1>8, BoundsFor
<1>10. c < Lines(f) /\ ~(c >= Lines(f))
  <2>1. a \in Nat
    BY <1>3, <1>4
  <2>2. c \in Nat /\ Cardinality(N) \in Nat /\ c <= Cardinality(N)
    BY <1>3, <1>8, <2>1, EndsCounted
  <2> QED
    BY <1>6, <2>2
<1>11. MoveVertical(f, c).cursor = Max(Fitting(f.text, a, b, Desired(f)))
  <2> SUFFICES ASSUME NEW x, NEW y, NEW z, y < Lines(f), ~(y >= Lines(f)),
                      BoundsOf(f, y) = [start |-> x, end |-> z]
               PROVE  MoveVertical(f, y).cursor = Max(Fitting(f.text, x, z, Desired(f)))
    BY <1>9, <1>10, Zenon
  <2> QED
    BY VerticalCursor, Zenon
<1>12. Max(Fitting(f.text, a, b, Desired(f))) = e.cursor
  BY <1>1, DesiredHere DEF Furthest, a, b
<1> QED
  BY <1>11, <1>12 DEF c

(* To a line and back. *)
LEMMA ThereAndBack ==
  ASSUME NEW e, InText(e), Settled(e), NEW line \in Nat, line < Lines(e)
  PROVE  MoveVertical(MoveVertical(e, line), CurrentLine(e)).cursor = e.cursor
BY VerticalKeeps, BackAgain

(* Down and up, or up and down. *)
LEMMA ReturnsVertically ==
  ASSUME InText(input), Settled(input)
  PROVE  VerticalReturns
<1> DEFINE c == CurrentLine(input)
           l == Lines(input)
<1>1. c \in Nat /\ l \in Nat /\ c < l
  <2>1. PICK N, n : /\ N = Newlines(input) /\ n = Len(input.text)
                    /\ N \subseteq 1 .. n /\ n \in Nat /\ input.cursor \in 0 .. n
    BY NewlinesIn
  <2>2. input.cursor \in Nat
    BY <2>1
  <2>3. UpTo(N, input.cursor) \in Nat /\ Cardinality(N) \in Nat /\ UpTo(N, input.cursor) <= Cardinality(N)
    BY <2>1, <2>2, EndsCounted
  <2> QED
    BY <2>1, <2>3, EditorLines
<1>2. ASSUME c + 1 < l PROVE MoveUp(MoveDown(input)).cursor = input.cursor
  <2> DEFINE f == MoveVertical(input, c + 1)
  <2>1. MoveDown(input) = f
    BY DEF MoveDown
  <2>2. c + 1 \in Nat /\ c + 1 # 0 /\ (c + 1) - 1 = c
    BY <1>1
  <2>3. CurrentLine(f) = c + 1
    BY <1>2, <2>2, VerticalKeeps
  <2>4. MoveVertical(f, c).cursor = input.cursor
    BY <1>2, <2>2, ThereAndBack
  <2> HIDE DEF f, c
  <2>5. MoveUp(f) = MoveVertical(f, c)
    BY <2>2, <2>3 DEF MoveUp
  <2> QED
    BY <2>1, <2>4, <2>5
<1>3. ASSUME c > 0 PROVE MoveDown(MoveUp(input)).cursor = input.cursor
  <2> DEFINE f == MoveVertical(input, c - 1)
  <2>1. c - 1 \in Nat /\ c # 0 /\ c - 1 < l /\ (c - 1) + 1 = c
    BY <1>1, <1>3
  <2>2. MoveUp(input) = f
    BY <2>1 DEF MoveUp
  <2>3. CurrentLine(f) = c - 1
    BY <2>1, VerticalKeeps
  <2>4. MoveVertical(f, c).cursor = input.cursor
    BY <2>1, ThereAndBack
  <2> HIDE DEF f, c
  <2>5. MoveDown(f) = MoveVertical(f, c)
    BY <2>1, <2>3 DEF MoveDown
  <2> QED
    BY <2>2, <2>4, <2>5
<1> QED
  BY <1>2, <1>3 DEF VerticalReturns

-----------------------------------------------------------------------------
(* The wrapped lines and the viewport. *)

(* f takes n steps from z. *)
Walk(f, n, z, step) == \A k \in 0 .. n : f[k] = IF k = 0 THEN z ELSE step[<<f[k - 1], k>>]

(* There is a walk of any length: a recursive function has the values that its
   definition gives, shown by the least length that has none. *)
LEMMA Walked ==
  ASSUME NEW n \in Nat, NEW S, NEW z \in S, NEW step \in [S \X (1 .. n) -> S]
  PROVE  \E f \in [0 .. n -> S] : Walk(f, n, z, step)
<1> DEFINE Is(f, m) == \A k \in 0 .. m : f[k] = IF k = 0 THEN z ELSE step[<<f[k - 1], k>>]
           Found(m) == \E f \in [0 .. m -> S] : Is(f, m)
           Missing == {m \in 0 .. n : ~Found(m)}
<1>1. Missing = {}
  <2> SUFFICES ASSUME Missing # {} PROVE FALSE
    OBVIOUS
  <2>1. PICK m \in Missing : \A l \in Missing : m <= l
    <3>1. Missing \subseteq Nat
      OBVIOUS
    <3> HIDE DEF Missing
    <3> QED
      BY <3>1, LeastOf
  <2>2. m \in 0 .. n /\ ~Found(m)
    BY <2>1
  <2>3. CASE m = 0
    <3> DEFINE f == [k \in 0 .. 0 |-> z]
    <3>1. f \in [0 .. m -> S] /\ Is(f, m)
      BY <2>3
    <3> QED
      BY <2>2, <3>1
  <2>4. CASE m # 0
    <3>1. m - 1 \in 0 .. n /\ m \in 1 .. n /\ ~(m <= m - 1)
      BY <2>2, <2>4
    <3>2. Found(m - 1)
      <4> HIDE DEF Found
      <4> QED
        BY <2>1, <3>1
    <3>3. PICK f \in [0 .. m - 1 -> S] : Is(f, m - 1)
      BY <3>2
    <3> DEFINE g == [k \in 0 .. m |-> IF k = m THEN step[<<f[m - 1], m>>] ELSE f[k]]
    <3>4. step[<<f[m - 1], m>>] \in S
      <4>1. f[m - 1] \in S
        BY <3>1
      <4> QED
        BY <3>1, <4>1
    <3>5. g \in [0 .. m -> S]
      <4>1. ASSUME NEW k \in 0 .. m, k # m PROVE f[k] \in S
        <5>1. k \in 0 .. m - 1
          BY <3>1, <4>1
        <5> QED
          BY <5>1
      <4> QED
        BY <3>4, <4>1
    <3>6. ASSUME NEW k \in 0 .. m PROVE g[k] = IF k = 0 THEN z ELSE step[<<g[k - 1], k>>]
      <4>1. CASE k = m
        <5>1. m - 1 \in 0 .. m /\ m - 1 # m /\ m # 0
          BY <3>1
        <5>2. g[m - 1] = f[m - 1] /\ g[m] = step[<<f[m - 1], m>>]
          BY <3>1, <5>1
        <5> QED
          BY <4>1, <5>1, <5>2
      <4>2. CASE k = 0
        <5>1. 0 \in 0 .. m - 1 /\ 0 \in 0 .. m /\ 0 # m
          BY <3>1
        <5>2. g[0] = f[0]
          BY <5>1
        <5> QED
          BY <3>3, <4>2, <5>1, <5>2
      <4>3. CASE k # m /\ k # 0
        <5>1. k \in 0 .. m - 1 /\ k - 1 \in 0 .. m /\ k - 1 # m
          BY <3>1, <4>3
        <5>2. g[k] = f[k] /\ g[k - 1] = f[k - 1]
          BY <4>3, <5>1
        <5>3. f[k] = step[<<f[k - 1], k>>]
          BY <3>3, <4>3, <5>1
        <5> QED
          BY <4>3, <5>2, <5>3
      <4> QED
        BY <4>1, <4>2, <4>3
    <3> HIDE DEF g
    <3>7. Is(g, m)
      BY <3>6
    <3> QED
      BY <2>2, <3>5, <3>7
  <2> QED
    BY <2>3, <2>4
<1>2. Found(n)
  <2> HIDE DEF Found
  <2>1. n \in 0 .. n
    OBVIOUS
  <2> QED
    BY <1>1, <2>1
<1> QED
  BY <1>2 DEF Walk

(* What holds at the start and is kept by each step holds throughout. *)
LEMMA StaysIn ==
  ASSUME NEW n \in Nat, NEW S, NEW u, u[0] \in S, \A k \in 1 .. n : u[k - 1] \in S => u[k] \in S
  PROVE  \A k \in 0 .. n : u[k] \in S
<1> DEFINE Out == {k \in 0 .. n : u[k] \notin S}
<1>1. Out = {}
  <2> SUFFICES ASSUME Out # {} PROVE FALSE
    OBVIOUS
  <2>1. PICK k \in Out : \A l \in Out : k <= l
    <3>1. Out \subseteq Nat
      OBVIOUS
    <3> HIDE DEF Out
    <3> QED
      BY <3>1, LeastOf
  <2>2. k \in 0 .. n /\ u[k] \notin S /\ k # 0
    BY <2>1
  <2>3. k \in 1 .. n /\ k - 1 \in 0 .. n /\ ~(k <= k - 1)
    BY <2>2
  <2>4. u[k - 1] \in S
    BY <2>1, <2>3
  <2> QED
    BY <2>2, <2>3, <2>4
<1> QED
  BY <1>1

(* A position on the wrapped lines. *)
Position == [line : Nat, column : Nat]

(* Each character leads from a position to a position. *)
LEMMA StepsPositioned ==
  ASSUME NEW p \in Position, NEW c, NEW s
  PROVE  Put(p, c, s) \in Position /\ Past(p, c, s) \in Position
<1>1. ASSUME NEW q \in Position PROVE Below(q) \in Position
  BY DEF Below, Position
<1>2. Columns(c) \in Nat
  BY DEF Columns
<1>3. Wrapped(p, c, s) \in Position
  BY <1>2 DEF Wrapped, Position
<1>4. Put(p, c, s) \in Position
  BY <1>1, <1>3 DEF Put
<1> QED
  BY <1>1, <1>4 DEF Past

(* visual_position finds a line, the first one for the start of the text. *)
LEMMA VisualLineIs ==
  ASSUME NEW t, NEW n \in Nat, NEW s
  PROVE  VisualLine(t, n, s) \in Nat /\ (n = 0 => VisualLine(t, n, s) = 0)
<1> DEFINE Is(f) == f = [k \in 0 .. n |-> IF k = 0 THEN Top ELSE Past(f[k - 1], t[k], s)]
           u == CHOOSE f : Is(f)
           step == [x \in Position \X (1 .. n) |-> Past(x[1], t[x[2]], s)]
<1>1. Top \in Position /\ Top.line = 0
  BY DEF Top, Position
<1>2. step \in [Position \X (1 .. n) -> Position]
  BY StepsPositioned
<1>3. \A p \in Position, k \in 1 .. n : step[<<p, k>>] = Past(p, t[k], s)
  OBVIOUS
<1> HIDE DEF step
<1>4. PICK f \in [0 .. n -> Position] : Walk(f, n, Top, step)
  BY <1>1, <1>2, Walked
<1>5. Is(f)
  <2>1. ASSUME NEW k \in 0 .. n PROVE f[k] = IF k = 0 THEN Top ELSE Past(f[k - 1], t[k], s)
    <3>1. CASE k = 0
      BY <1>4, <3>1 DEF Walk
    <3>2. CASE k # 0
      <4>1. k \in 1 .. n /\ k - 1 \in 0 .. n
        BY <3>2
      <4>2. f[k - 1] \in Position
        BY <4>1
      <4>3. f[k] = step[<<f[k - 1], k>>]
        BY <1>4, <3>2 DEF Walk
      <4> QED
        BY <1>3, <3>2, <4>1, <4>2, <4>3
    <3> QED
      BY <3>1, <3>2
  <2>2. f = [k \in 0 .. n |-> f[k]]
    OBVIOUS
  <2> QED
    BY <2>1, <2>2
<1>6. Is(u)
  <2>1. \E g : Is(g)
    BY <1>5
  <2> HIDE DEF Is
  <2> QED
    BY <2>1
<1>7. VisualLine(t, n, s) = u[n].line
  BY DEF VisualLine
<1> HIDE DEF u
<1>8. u[0] = Top /\ \A k \in 1 .. n : u[k] = Past(u[k - 1], t[k], s)
  BY <1>6
<1>9. u[n] \in Position
  <2>1. u[0] \in Position /\ \A k \in 1 .. n : u[k - 1] \in Position => u[k] \in Position
    BY <1>1, <1>8, StepsPositioned
  <2>2. \A k \in 0 .. n : u[k] \in Position
    BY <1>1, <2>1, StaysIn, Zenon
  <2>3. n \in 0 .. n
    BY <1>1
  <2> QED
    BY <2>2, <2>3
<1> QED
  BY <1>1, <1>7, <1>8, <1>9 DEF Position

(* wrapped_line_count is a number. *)
LEMMA WrappedLinesIs ==
  ASSUME NEW t \in Seq(Chars), NEW s
  PROVE  WrappedLines(t, s) \in Nat
<1> DEFINE n == Len(t)
           Is(f) == f = [k \in 0 .. n |-> IF k = 0 THEN Top ELSE Put(f[k - 1], t[k], s)]
           u == CHOOSE f : Is(f)
           step == [x \in Position \X (1 .. n) |-> Put(x[1], t[x[2]], s)]
<1>1. Top \in Position /\ n \in Nat
  BY DEF Top, Position
<1>7. WrappedLines(t, s) = u[n].line + 1
  BY DEF WrappedLines
<1> HIDE DEF n
<1>2. step \in [Position \X (1 .. n) -> Position]
  BY StepsPositioned
<1>3. \A p \in Position, k \in 1 .. n : step[<<p, k>>] = Put(p, t[k], s)
  OBVIOUS
<1> HIDE DEF step
<1>4. PICK f \in [0 .. n -> Position] : Walk(f, n, Top, step)
  BY <1>1, <1>2, Walked
<1>5. Is(f)
  <2>1. ASSUME NEW k \in 0 .. n PROVE f[k] = IF k = 0 THEN Top ELSE Put(f[k - 1], t[k], s)
    <3>1. CASE k = 0
      BY <1>4, <3>1 DEF Walk
    <3>2. CASE k # 0
      <4>1. k \in 1 .. n /\ k - 1 \in 0 .. n
        BY <1>1, <3>2
      <4>2. f[k - 1] \in Position
        BY <4>1
      <4>3. f[k] = step[<<f[k - 1], k>>]
        BY <1>4, <3>2 DEF Walk
      <4> QED
        BY <1>3, <3>2, <4>1, <4>2, <4>3
    <3> QED
      BY <3>1, <3>2
  <2>2. f = [k \in 0 .. n |-> f[k]]
    OBVIOUS
  <2> QED
    BY <2>1, <2>2
<1>6. Is(u)
  <2>1. \E g : Is(g)
    BY <1>5
  <2> HIDE DEF Is
  <2> QED
    BY <2>1
<1> HIDE DEF u
<1>8. u[0] = Top /\ \A k \in 1 .. n : u[k] = Put(u[k - 1], t[k], s)
  BY <1>1, <1>6
<1>9. u[n] \in Position
  <2>1. u[0] \in Position /\ \A k \in 1 .. n : u[k - 1] \in Position => u[k] \in Position
    BY <1>1, <1>8, StepsPositioned
  <2>2. \A k \in 0 .. n : u[k] \in Position
    BY <1>1, <2>1, StaysIn, Zenon
  <2>3. n \in 0 .. n
    BY <1>1
  <2> QED
    BY <2>2, <2>3
<1> QED
  BY <1>7, <1>9 DEF Position

(* The input box shows at least one line. *)
LEMMA SomeVisible ==
  ASSUME EditorAssumption, NEW e, InText(e), NEW s \in Sizes
  PROVE  Visible(e, s) \in Nat /\ Visible(e, s) >= 1 /\ CursorLine(e, s) \in Nat
<1>1. s.height \in Nat
  BY DEF EditorAssumption
<1>2. CursorLine(e, s) \in Nat
  <2>1. e.cursor \in Nat
    BY DEF InText, Edit
  <2> QED
    BY <2>1, VisualLineIs DEF CursorLine
<1>3. WrappedLines(e.text, s) \in Nat
  <2>1. e.text \in Seq(Chars)
    BY DEF InText, Edit
  <2> QED
    BY <2>1, WrappedLinesIs
<1>4. InputHeight(e, s) \in Int
  <2>1. \A a, b \in Int : Max({a, b}) \in Int /\ Min({a, b}) \in Int
    <3> TAKE a, b \in Int
    <3> QED
      BY MaxOfTwo, MinOfTwo
  <2>2. /\ 1 \in Int /\ 3 \in Int /\ 8 \in Int /\ (s.height * 3) \div 10 \in Int
        /\ s.height - 1 \in Int /\ CursorLine(e, s) + 1 \in Int
        /\ WrappedLines(e.text, s) \in Int
    BY <1>1, <1>2, <1>3
  <2>3. \A n \in Int : n + 2 \in Int
    OBVIOUS
  <2> DEFINE most  == Max({3, Min({8, (s.height * 3) \div 10})})
             lines == Max({WrappedLines(e.text, s), CursorLine(e, s) + 1})
  <2>4. most \in Int
    BY <2>1, <2>2, Zenon
  <2>5. lines \in Int
    BY <2>1, <2>2, Zenon
  <2>6. InputHeight(e, s) = IF s.height <= 4 THEN Max({1, s.height - 1})
                            ELSE Max({3, Min({most, lines + 2})})
    BY Zenon DEF InputHeight
  <2> HIDE DEF most, lines
  <2>7. Max({3, Min({most, lines + 2})}) \in Int
    BY <2>1, <2>2, <2>3, <2>4, <2>5, Zenon
  <2>8. Max({1, s.height - 1}) \in Int
    BY <2>1, <2>2, Zenon
  <2> QED
    BY <2>6, <2>7, <2>8, Zenon
<1>5. InputHeight(e, s) - 2 \in Int
  BY <1>4
<1>6. Visible(e, s) = Max({1, InputHeight(e, s) - 2})
  BY DEF Visible
<1>7. Visible(e, s) \in Int /\ Visible(e, s) >= 1
  <2>1. \A h \in Int : Max({1, h}) \in Int /\ Max({1, h}) >= 1
    <3>1. \A g, h \in Int : Max({g, h}) \in Int /\ Max({g, h}) >= g
      <4> TAKE g, h \in Int
      <4> QED
        BY MaxOfTwo
    <3>2. 1 \in Int
      OBVIOUS
    <3> QED
      BY <3>1, <3>2, Zenon
  <2> QED
    BY <1>5, <1>6, <2>1, Zenon
<1> QED
  BY <1>2, <1>7

(* The line with the cursor is one of those shown. *)
InView(e, s) ==
  e.viewport <= CursorLine(e, s) /\ CursorLine(e, s) < e.viewport + Visible(e, s)

(* What depends on the text and the cursor alone. *)
LEMMA SameView ==
  ASSUME NEW e, NEW f, f.text = e.text, f.cursor = e.cursor, f.column = e.column, NEW s
  PROVE  /\ CursorLine(f, s) = CursorLine(e, s)
         /\ Visible(f, s) = Visible(e, s)
         /\ Before(f) = Before(e) /\ After(f) = After(e)
         /\ Settled(e) => Settled(f)
<1>1. CursorLine(f, s) = CursorLine(e, s)
  BY DEF CursorLine
<1>2. Newlines(f) = Newlines(e)
  BY DEF Newlines
<1>3. LineStart(f) = LineStart(e) /\ LineEnd(f) = LineEnd(e)
  BY <1>2 DEF LineStart, LineEnd
<1>4. InputHeight(f, s) = InputHeight(e, s)
  BY <1>1 DEF InputHeight
<1>5. Visible(f, s) = Visible(e, s)
  BY <1>4 DEF Visible
<1>6. Before(f) = Before(e) /\ After(f) = After(e)
  BY DEF Before, After
<1>7. Settled(e) => Settled(f)
  BY <1>3 DEF Settled, Furthest
<1> QED
  BY <1>1, <1>5, <1>6, <1>7

(* sync_input_viewport brings the cursor into view, and changes nothing else. *)
LEMMA SyncedKeeps ==
  ASSUME EditorAssumption, NEW e, InText(e), Settled(e), NEW s \in Sizes, NEW f,
         f = Synced(e, s)
  PROVE  /\ InText(f) /\ Settled(f) /\ InView(f, s) /\ f.text = e.text
         /\ Before(f) = Before(e) /\ After(f) = After(e)
<1> DEFINE line == CursorLine(e, s)
           seen == Visible(e, s)
<1>1. line \in Nat /\ seen \in Nat /\ seen >= 1 /\ e.viewport \in Nat /\ e \in Edit
  BY SomeVisible DEF InText, Edit
<1>2. Synced(e, s) = IF line < e.viewport THEN [e EXCEPT !.viewport = line]
                            ELSE IF line >= e.viewport + seen
                            THEN [e EXCEPT !.viewport = line + 1 - seen] ELSE e
  BY DEF Synced
<1> HIDE DEF line, seen
<1>3. PICK v \in Nat : f = [e EXCEPT !.viewport = v] /\ v <= line /\ line < v + seen
  <2>1. CASE line < e.viewport
    BY <1>1, <1>2, <2>1
  <2>2. CASE ~(line < e.viewport) /\ line >= e.viewport + seen
    <3>1. line + 1 - seen \in Nat /\ line + 1 - seen <= line /\ line < (line + 1 - seen) + seen
      BY <1>1, <2>2
    <3> QED
      BY <1>2, <2>2, <3>1
  <2>3. CASE ~(line < e.viewport) /\ ~(line >= e.viewport + seen)
    <3>1. e = [e EXCEPT !.viewport = e.viewport] /\ e.viewport <= line /\ line < e.viewport + seen
      BY <1>1, <2>3 DEF Edit
    <3> QED
      BY <1>1, <1>2, <2>3, <3>1
  <2> QED
    BY <2>1, <2>2, <2>3
<1>4. /\ f.text = e.text /\ f.cursor = e.cursor /\ f.column = e.column /\ f.viewport = v
      /\ f \in Edit
  BY <1>1, <1>3 DEF Edit
<1>5. /\ CursorLine(f, s) = line /\ Visible(f, s) = seen
      /\ Before(f) = Before(e) /\ After(f) = After(e) /\ Settled(f)
  BY <1>4, SameView DEF line, seen
<1>6. InText(f)
  BY <1>4 DEF InText
<1> QED
  BY <1>3, <1>4, <1>5, <1>6 DEF InView

-----------------------------------------------------------------------------
(* Edits and moves. *)

(* A text that begins another. *)
LEMMA PrefixIs ==
  ASSUME NEW S, NEW s \in Seq(S), NEW t \in Seq(S), Len(s) <= Len(t), \A i \in 1 .. Len(s) : s[i] = t[i]
  PROVE  IsPrefix(s, t)
<1> DEFINE p == SubSeq(t, 1, Len(s))
<1>1. Len(s) \in 0 .. Len(t)
  OBVIOUS
<1>2. p \in Seq(S) /\ Len(p) = Len(s) /\ \A i \in 1 .. Len(s) : p[i] = t[i]
  BY <1>1, SplitAt
<1> HIDE DEF p
<1>3. p = s
  <2>1. \A i \in 1 .. Len(p) : p[i] = s[i]
    BY <1>2
  <2> QED
    BY <1>2, <2>1, SeqEqual
<1>4. SubSeq(s, 1, Len(s)) = s
  BY SubSeqFull
<1> QED
  BY <1>3, <1>4 DEF p, IsPrefix

(* A text that ends another. *)
LEMMA SuffixIs ==
  ASSUME NEW S, NEW s \in Seq(S), NEW t \in Seq(S), Len(s) <= Len(t),
         \A i \in 1 .. Len(s) : s[i] = t[Len(t) - Len(s) + i]
  PROVE  IsSuffix(s, t)
<1> DEFINE m == Len(s)
           n == Len(t)
           x == [i \in 1 .. m |-> s[(m - i) + 1]]
           y == [i \in 1 .. n |-> t[(n - i) + 1]]
<1>1. m \in Nat /\ n \in Nat /\ m <= n
  OBVIOUS
<1>2. Reverse(s) = x /\ Reverse(t) = y
  BY DEF Reverse
<1>3. ASSUME NEW i \in 1 .. m PROVE s[(m - i) + 1] = t[(n - i) + 1] /\ (m - i) + 1 \in 1 .. m
  <2>1. (m - i) + 1 \in 1 .. m /\ n - m + ((m - i) + 1) = (n - i) + 1
    BY <1>1
  <2> QED
    BY <2>1
<1>4. ASSUME NEW i \in 1 .. n PROVE (n - i) + 1 \in 1 .. n
  BY <1>1
<1>5. x \in Seq(S) /\ Len(x) = m
  BY <1>1, <1>3
<1>6. y \in Seq(S) /\ Len(y) = n
  BY <1>1, <1>4
<1>7. \A i \in 1 .. m : x[i] = y[i]
  <2> TAKE i \in 1 .. m
  <2>1. i \in 1 .. n
    BY <1>1
  <2> QED
    BY <1>3, <2>1
<1> HIDE DEF x, y, m, n
<1>8. IsPrefix(x, y)
  BY <1>1, <1>5, <1>6, <1>7, PrefixIs
<1> QED
  BY <1>2, <1>8 DEF IsSuffix

(* What an edit may do to the text: nothing, add to what is before the cursor,
   or take away on one side of it. *)
Local(e, f) ==
  \/ f.text = e.text
  \/ After(f) = After(e) /\ IsPrefix(Before(e), Before(f))
  \/ After(f) = After(e) /\ IsPrefix(Before(f), Before(e))
  \/ Before(f) = Before(e) /\ IsSuffix(After(f), After(e))

(* An edit or a move is good when it leads to a text with a cursor in it. *)
Kept(e, f) == InText(f) /\ Settled(f) /\ Local(e, f)

(* What becomes of the texts before and after the cursor decides it. *)
LEMMA Replaces ==
  ASSUME NEW e, InText(e), NEW b \in Seq(Chars), NEW a \in Seq(Chars)
  PROVE  /\ (a = After(e) /\ IsPrefix(b, Before(e))) => Kept(e, Place(e, b, a))
         /\ (a = After(e) /\ IsPrefix(Before(e), b)) => Kept(e, Place(e, b, a))
         /\ (b = Before(e) /\ IsSuffix(a, After(e))) => Kept(e, Place(e, b, a))
         /\ b \o a = e.text => Kept(e, Place(e, b, a))
<1>1. PICK f : f = Place(e, b, a)
  OBVIOUS
<1>2. /\ InText(f) /\ f.text = b \o a /\ f.column = <<>>
      /\ Before(f) = b /\ After(f) = a
  <2>1. e \in Edit
    BY DEF InText
  <2> QED
    BY <1>1, <2>1, JoinedAt, Zenon
<1>3. Settled(f)
  BY <1>2, Zenon DEF Settled
<1> QED
  BY <1>1, <1>2, <1>3, Zenon DEF Kept, Local

(* insert_text. *)
LEMMA InsertKeeps ==
  ASSUME NEW e, InText(e), NEW s \in Seq(Chars)
  PROVE  Kept(e, Insert(e, s))
<1>1. PICK b, a : b = Before(e) /\ a = After(e)
  OBVIOUS
<1>2. b \in Seq(Chars) /\ a \in Seq(Chars)
  BY <1>1, PartsOf, Zenon
<1>3. b \o s \in Seq(Chars) /\ Len(b) <= Len(b \o s) /\ \A i \in 1 .. Len(b) : b[i] = (b \o s)[i]
  BY <1>2
<1>4. IsPrefix(b, b \o s)
  BY <1>2, <1>3, PrefixIs
<1>5. Kept(e, Place(e, b \o s, a))
  BY <1>1, <1>2, <1>3, <1>4, Replaces, Zenon
<1> QED
  BY <1>1, <1>5, Zenon DEF Insert

(* A key that does nothing. *)
LEMMA StaysPut ==
  ASSUME NEW e, InText(e), Settled(e)
  PROVE  Kept(e, e)
BY DEF Kept, Local

(* backspace. *)
LEMMA BackspaceKeeps ==
  ASSUME NEW e, InText(e), Settled(e)
  PROVE  Kept(e, Backspace(e))
<1>1. CASE e.cursor = 0
  BY <1>1, StaysPut, Zenon DEF Backspace
<1>2. CASE e.cursor # 0
  <2>1. PICK b, a : b = Before(e) /\ a = After(e)
    OBVIOUS
  <2>2. b \in Seq(Chars) /\ a \in Seq(Chars) /\ Len(b) # 0
    BY <1>2, <2>1, PartsOf, Zenon
  <2>3. Len(b) - 1 \in 0 .. Len(b)
    BY <2>2
  <2> DEFINE f == SubSeq(b, 1, Len(b) - 1)
  <2>4. f \in Seq(Chars) /\ Len(f) = Len(b) - 1 /\ \A i \in 1 .. Len(b) - 1 : f[i] = b[i]
    BY <2>2, <2>3, SplitAt
  <2>5. Front(b) = f
    BY DEF Front
  <2> HIDE DEF f
  <2>6. Len(f) <= Len(b) /\ \A i \in 1 .. Len(f) : f[i] = b[i]
    BY <2>2, <2>4
  <2>7. IsPrefix(f, b)
    BY <2>2, <2>4, <2>6, PrefixIs
  <2>8. Kept(e, Place(e, f, a))
    BY <2>1, <2>2, <2>4, <2>7, Replaces, Zenon
  <2> QED
    BY <1>2, <2>1, <2>5, <2>8, Zenon DEF Backspace
<1> QED
  BY <1>1, <1>2

(* delete. *)
LEMMA DeleteKeeps ==
  ASSUME NEW e, InText(e), Settled(e)
  PROVE  Kept(e, Delete(e))
<1>1. CASE ~HasNext(e)
  BY <1>1, StaysPut, Zenon DEF Delete
<1>2. CASE HasNext(e)
  <2>1. PICK b, a : b = Before(e) /\ a = After(e)
    OBVIOUS
  <2>2. b \in Seq(Chars) /\ a \in Seq(Chars)
    BY <2>1, PartsOf, Zenon
  <2>3. Len(a) >= 2
    BY <1>2, <2>1, Zenon DEF HasNext
  <2>4. /\ Tail(a) \in Seq(Chars) /\ Len(Tail(a)) = Len(a) - 1
        /\ \A i \in 1 .. Len(Tail(a)) : Tail(a)[i] = a[i + 1]
    BY <2>2, <2>3
  <2>5. Len(Tail(a)) <= Len(a) /\ \A i \in 1 .. Len(Tail(a)) : Tail(a)[i] = a[Len(a) - Len(Tail(a)) + i]
    <3> DEFINE s == Tail(a)
    <3>1. Len(a) - Len(s) = 1 /\ Len(a) \in Nat
      BY <2>2, <2>3, <2>4
    <3>2. \A i \in 1 .. Len(s) : i + 1 = 1 + i
      OBVIOUS
    <3> QED
      BY <2>4, <3>1, <3>2
  <2>6. IsSuffix(Tail(a), a)
    BY <2>2, <2>4, <2>5, SuffixIs
  <2>7. Kept(e, Place(e, b, Tail(a)))
    BY <2>1, <2>2, <2>4, <2>6, Replaces, Zenon
  <2> QED
    BY <1>2, <2>1, <2>7, Zenon DEF Delete
<1> QED
  BY <1>1, <1>2

(* A text cut before or after its cursor. *)
LEMMA CutKeeps ==
  ASSUME NEW e, InText(e), NEW i \in 0 .. e.cursor, NEW j \in e.cursor .. Len(e.text)
  PROVE  /\ Kept(e, Place(e, SubSeq(e.text, 1, i), After(e)))
         /\ Kept(e, Place(e, Before(e), SubSeq(e.text, j + 1, Len(e.text))))
<1>1. PICK t, c, b, a : t = e.text /\ c = e.cursor /\ b = Before(e) /\ a = After(e)
  OBVIOUS
<1>2. i \in 0 .. c /\ j \in c .. Len(t)
  BY <1>1, Zenon
<1>3. /\ t \in Seq(Chars) /\ Len(t) \in Nat /\ c \in 0 .. Len(t)
      /\ b \in Seq(Chars) /\ Len(b) = c /\ \A k \in 1 .. c : b[k] = t[k]
      /\ a \in Seq(Chars) /\ Len(a) = Len(t) - c
      /\ \A k \in 1 .. Len(t) - c : a[k] = t[c + k]
  BY <1>1, PartsOf, Zenon
<1> DEFINE p == SubSeq(t, 1, i)
           q == SubSeq(t, j + 1, Len(t))
<1>4. i \in 0 .. Len(t) /\ j \in 0 .. Len(t)
  BY <1>2, <1>3
<1>5. /\ p \in Seq(Chars) /\ Len(p) = i /\ \A k \in 1 .. i : p[k] = t[k]
      /\ q \in Seq(Chars) /\ Len(q) = Len(t) - j /\ \A k \in 1 .. Len(t) - j : q[k] = t[j + k]
  BY <1>3, <1>4, SplitAt
<1> HIDE DEF p, q
<1>6. IsPrefix(p, b)
  <2>1. Len(p) <= Len(b) /\ \A k \in 1 .. Len(p) : p[k] = b[k]
    BY <1>2, <1>3, <1>5
  <2> QED
    BY <1>3, <1>5, <2>1, PrefixIs
<1>7. IsSuffix(q, a)
  <2>1. Len(q) <= Len(a)
    BY <1>2, <1>3, <1>5
  <2>2. ASSUME NEW k \in 1 .. Len(q) PROVE q[k] = a[Len(a) - Len(q) + k]
    <3>1. q[k] = t[j + k]
      BY <1>5
    <3>2. Len(a) - Len(q) + k = (j - c) + k /\ (j - c) + k \in 1 .. Len(t) - c /\ c + ((j - c) + k) = j + k
      BY <1>2, <1>3, <1>5
    <3> QED
      BY <1>3, <3>1, <3>2
  <2> QED
    BY <1>3, <1>5, <2>1, <2>2, SuffixIs
<1>8. Kept(e, Place(e, p, a)) /\ Kept(e, Place(e, b, q))
  BY <1>1, <1>3, <1>5, <1>6, <1>7, Replaces, Zenon
<1> QED
  BY <1>1, <1>8, Zenon DEF p, q

(* A move sideways. *)
LEMMA ToKeeps ==
  ASSUME NEW e, InText(e), NEW i \in 0 .. Len(e.text)
  PROVE  Kept(e, To(e, i))
<1>1. PICK t : t = e.text /\ t \in Seq(Chars)
  BY PartsOf, Zenon
<1>2. i \in 0 .. Len(t) /\ t \in Seq(Chars)
  BY <1>1, Zenon
<1> DEFINE p == SubSeq(t, 1, i)
           q == SubSeq(t, i + 1, Len(t))
<1>3. p \in Seq(Chars) /\ q \in Seq(Chars) /\ p \o q = t
  BY <1>2, SplitAt
<1>4. To(e, i) = Place(e, p, q)
  BY <1>1, Zenon DEF To
<1> HIDE DEF p, q
<1> QED
  BY <1>1, <1>3, <1>4, Replaces, Zenon

(* The start of the previous word is before the cursor. *)
LEMMA WordStartIs ==
  ASSUME NEW e, InText(e)
  PROVE  WordStart(e) \in 0 .. e.cursor
<1>1. PICK c : c = e.cursor /\ c \in Nat
  BY DEF InText, Edit
<1> DEFINE ink  == {k \in 1 .. c : ~IsBlank(e.text[k])}
           gaps == {k \in 1 .. c : IsBlank(e.text[k]) /\ ink # {} /\ k < Max(ink)}
<1>2. WordStart(e) = IF gaps = {} THEN 0 ELSE Max(gaps)
  BY <1>1, Zenon DEF WordStart
<1>3. gaps \subseteq 0 .. c /\ c \in Nat
  BY <1>1
<1> HIDE DEF gaps
<1>4. (IF gaps = {} THEN 0 ELSE Max(gaps)) \in 0 .. c
  <2>1. CASE gaps # {}
    <3>1. Max(gaps) \in gaps
      BY <1>3, <2>1, MaxOf
    <3> QED
      BY <1>3, <2>1, <3>1
  <2>2. CASE gaps = {}
    BY <1>3, <2>2
  <2> QED
    BY <2>1, <2>2
<1> QED
  BY <1>1, <1>2, <1>4, Zenon

(* Every key that deletes. *)
LEMMA EditsKeep ==
  ASSUME NEW e, InText(e), Settled(e), NEW f \in Edits(e)
  PROVE  Kept(e, f)
<1>1. /\ LineStart(e) \in 0 .. e.cursor /\ LineEnd(e) \in e.cursor .. Len(e.text)
      /\ e.cursor \in 0 .. e.cursor /\ e.cursor \in e.cursor .. Len(e.text)
  <2>1. PICK n, c, a, b : n = Len(e.text) /\ c = e.cursor /\ a = LineStart(e) /\ b = LineEnd(e)
    OBVIOUS
  <2>2. n \in Nat /\ c \in 0 .. n /\ a \in 0 .. n /\ b \in a .. n /\ c \in a .. b
    BY <2>1, LinePlace, PartsOf, Zenon
  <2>3. a \in 0 .. c /\ b \in c .. n /\ c \in 0 .. c /\ c \in c .. n
    BY <2>2
  <2> QED
    BY <2>1, <2>3, Zenon
<1>2. Kept(e, Backspace(e)) /\ Kept(e, Delete(e))
  BY BackspaceKeeps, DeleteKeeps, Zenon
<1>3. Kept(e, DeleteToLineStart(e)) /\ Kept(e, DeleteToLineEnd(e))
  BY <1>1, CutKeeps, Zenon DEF DeleteToLineStart, DeleteToLineEnd
<1>4. Kept(e, DeletePreviousWord(e))
  BY <1>1, WordStartIs, CutKeeps, Zenon DEF DeletePreviousWord
<1> QED
  BY <1>2, <1>3, <1>4, Zenon DEF Edits

(* Every key that moves sideways. *)
LEMMA MovesKeep ==
  ASSUME NEW e, InText(e), Settled(e), NEW f \in Moves(e)
  PROVE  Kept(e, f)
<1>1. PICK n, c, a, b : n = Len(e.text) /\ c = e.cursor /\ a = LineStart(e) /\ b = LineEnd(e)
  OBVIOUS
<1>2. n \in Nat /\ c \in 0 .. n /\ a \in 0 .. n /\ b \in a .. n
  BY <1>1, LinePlace, PartsOf, Zenon
<1>3. HasNext(e) => c + 1 \in 0 .. n
  <2> SUFFICES ASSUME HasNext(e) PROVE c + 1 \in 0 .. n
    OBVIOUS
  <2>1. n - c >= 2
    BY <1>1, PartsOf, Zenon DEF HasNext
  <2> QED
    BY <1>2, <2>1
<1>4. (IF c = 0 THEN 0 ELSE c - 1) \in 0 .. n /\ (IF HasNext(e) THEN c + 1 ELSE c) \in 0 .. n
  BY <1>2, <1>3
<1>5. a \in 0 .. n /\ b \in 0 .. n
  BY <1>2
<1>6. \A i \in 0 .. n : Kept(e, To(e, i))
  BY <1>1, ToKeeps, Zenon
<1> QED
  BY <1>1, <1>4, <1>5, <1>6, Zenon DEF Moves, MoveLeft, MoveRight, MoveHome, MoveEnd

(* Up and Down inside the text. *)
LEMMA VerticalMovesKeep ==
  ASSUME NEW e, InText(e), Settled(e)
  PROVE  Kept(e, MoveUp(e)) /\ Kept(e, MoveDown(e))
<1>1. CurrentLine(e) \in Nat /\ Lines(e) \in Nat
  <2>1. PICK N, n : /\ N = Newlines(e) /\ n = Len(e.text)
                    /\ N \subseteq 1 .. n /\ n \in Nat /\ e.cursor \in 0 .. n
    BY NewlinesIn
  <2>2. e.cursor \in Nat
    BY <2>1
  <2>3. UpTo(N, e.cursor) \in Nat /\ Cardinality(N) \in Nat /\ UpTo(N, e.cursor) <= Cardinality(N)
    BY <2>1, <2>2, EndsCounted
  <2> QED
    BY <2>1, <2>3, EditorLines
<1>2. ASSUME NEW line \in Nat PROVE Kept(e, MoveVertical(e, line))
  <2>1. CASE line >= Lines(e)
    BY <2>1, StaysPut, Zenon DEF MoveVertical
  <2>2. CASE ~(line >= Lines(e))
    <3>1. line < Lines(e)
      BY <1>1, <2>2
    <3> QED
      BY <3>1, VerticalKeeps, Zenon DEF Kept, Local
  <2> QED
    BY <2>1, <2>2
<1>3. (IF CurrentLine(e) = 0 THEN 0 ELSE CurrentLine(e) - 1) \in Nat /\ CurrentLine(e) + 1 \in Nat
  BY <1>1
<1> QED
  BY <1>2, <1>3, Zenon DEF MoveUp, MoveDown

(* A recalled prompt has its cursor at the end. *)
LEMMA SetTextIs ==
  ASSUME NEW t \in Seq(Chars)
  PROVE  InText(SetText(t)) /\ Settled(SetText(t)) /\ SetText(t).text = t
<1>1. Len(t) \in Nat /\ 0 \in Nat /\ <<>> \in Seq(Nat) /\ Len(t) <= Len(t)
  OBVIOUS
<1>2. PICK e : e = [text |-> t, cursor |-> Len(t), column |-> <<>>, viewport |-> 0]
  OBVIOUS
<1>3. e = SetText(t)
  BY <1>2, Zenon DEF SetText, NoColumn
<1>4. e \in Edit /\ e.text = t /\ e.cursor = Len(t) /\ e.column = <<>>
  BY <1>1, <1>2 DEF Edit
<1>5. InText(e) /\ Settled(e)
  BY <1>1, <1>4, Zenon DEF InText, Settled
<1> QED
  BY <1>3, <1>4, <1>5, Zenon

-----------------------------------------------------------------------------
(* The history, and every step. *)

(* The history has the entry that is being shown. *)
InHistory(h) ==
  /\ h \in [entries : Seq(Seq(Chars)), cursor : Nat, draft : Seq(Chars)]
  /\ h.cursor <= Len(h.entries)

(* The inductive invariant, and what a step may do: the steps of EditsStayLocal
   and of DraftKept. *)
EditorInv ==
  /\ InText(input) /\ Settled(input) /\ size \in Sizes /\ InView(input, size)
  /\ InHistory(history)

LocalStep ==
  Local(input, input') \/ input'.text \in ToSet(history.entries) \cup {history.draft, <<>>}

DraftStep ==
  /\ ~Browsing(history) /\ Browsing(history') => history'.draft = input.text
  /\ Browsing(history) /\ Browsing(history') => history'.draft = history.draft
  /\ Browsing(history) /\ ~Browsing(history') => input'.text \in {history.draft, <<>>}

(* The empty input. *)
LEMMA EmptyIs ==
  ASSUME EditorAssumption, NEW s \in Sizes
  PROVE  /\ InText(Empty) /\ Settled(Empty) /\ InView(Empty, s)
         /\ Empty.text = <<>>
<1>1. PICK e : e = Empty
  OBVIOUS
<1>2. e \in Edit /\ e.text = <<>> /\ e.cursor = 0 /\ e.column = <<>> /\ e.viewport = 0
  <2>1. <<>> \in Seq(Chars) /\ <<>> \in Seq(Nat)
    OBVIOUS
  <2> QED
    BY <1>1, <2>1 DEF Empty, NoColumn, Edit
<1>3. InText(e)
  <2>1. Len(e.text) = 0
    BY <1>2
  <2> QED
    BY <1>2, <2>1 DEF InText
<1>4. Settled(e)
  BY <1>2, Zenon DEF Settled
<1>5. InView(e, s)
  <2>1. CursorLine(e, s) = 0
    BY <1>2, VisualLineIs DEF CursorLine
  <2>2. Visible(e, s) \in Nat /\ Visible(e, s) >= 1
    BY <1>3, SomeVisible
  <2> QED
    BY <1>2, <2>1, <2>2 DEF InView
<1> QED
  BY <1>1, <1>2, <1>3, <1>4, <1>5, Zenon

(* The end of every key: the viewport follows the cursor. *)
LEMMA ShowsKeeps ==
  ASSUME EditorAssumption, size \in Sizes, NEW f, InText(f), Settled(f), Displays(f)
  PROVE  /\ InText(input') /\ Settled(input') /\ size' \in Sizes /\ InView(input', size')
         /\ input'.text = f.text /\ size' = size
         /\ Before(input') = Before(f) /\ After(input') = After(f)
<1>1. PICK g, s : g = input' /\ s = size /\ g = Synced(f, s) /\ size' = s
  BY Zenon DEF Displays
<1>2. s \in Sizes
  BY <1>1, Zenon
<1>3. /\ InText(g) /\ Settled(g) /\ InView(g, s) /\ g.text = f.text
      /\ Before(g) = Before(f) /\ After(g) = After(f)
  BY <1>1, <1>2, SyncedKeeps, Zenon
<1> QED
  BY <1>1, <1>2, <1>3, Zenon

(* A key that edits or moves and leaves the history alone. *)
LEMMA EditedLocally ==
  ASSUME EditorAssumption, EditorInv, NEW f, Kept(input, f), Displays(f), UNCHANGED history
  PROVE  EditorInv' /\ LocalStep /\ DraftStep
<1>1. /\ InText(input') /\ Settled(input') /\ size' \in Sizes /\ InView(input', size')
      /\ input'.text = f.text
      /\ Before(input') = Before(f) /\ After(input') = After(f)
  BY ShowsKeeps, Zenon DEF Kept, EditorInv
<1>2. EditorInv'
  BY <1>1, Zenon DEF EditorInv
<1>3. LocalStep
  BY <1>1, Zenon DEF LocalStep, Local, Kept
<1>4. DraftStep
  BY Zenon DEF DraftStep
<1> QED
  BY <1>2, <1>3, <1>4

(* previous: an entry that is there, and the draft taken the first time only. *)
LEMMA RecalledIs ==
  ASSUME NEW h, InHistory(h), h.entries # <<>>, NEW e, InText(e), NEW g, g = Recalled(h, e)
  PROVE  /\ InHistory(g) /\ g.entries = h.entries /\ g.cursor \in 1 .. Len(h.entries)
         /\ g.draft = IF h.cursor = 0 THEN e.text ELSE h.draft
<1>2. h \in [entries : Seq(Seq(Chars)), cursor : Nat, draft : Seq(Chars)]
  BY DEF InHistory
<1>0. PICK n, c, t : n = Len(h.entries) /\ c = h.cursor /\ t = e.text
  OBVIOUS
<1>1. n = Len(h.entries) /\ c = h.cursor /\ t = e.text /\ n \in Nat /\ n >= 1 /\ c \in 0 .. n /\ t \in Seq(Chars)
  <2>1. Len(h.entries) \in Nat /\ Len(h.entries) >= 1
    <3>1. h.entries \in Seq(Seq(Chars))
      BY <1>2
    <3> QED
      BY <3>1
  <2>2. h.cursor \in 0 .. Len(h.entries)
    BY <1>2, <2>1 DEF InHistory
  <2>3. e.text \in Seq(Chars)
    BY DEF InText, Edit
  <2> QED
    BY <1>0, <2>1, <2>2, <2>3, Zenon
<1>3. CASE c = 0
  <2>1. g = [h EXCEPT !.draft = t, !.cursor = n]
    BY <1>1, <1>3, Zenon DEF Recalled, NoEntry
  <2>2. /\ g \in [entries : Seq(Seq(Chars)), cursor : Nat, draft : Seq(Chars)]
        /\ g.entries = h.entries /\ g.cursor = n /\ g.draft = t
    BY <1>1, <1>2, <2>1
  <2>3. n \in 1 .. n /\ n <= n
    BY <1>1
  <2> QED
    BY <1>1, <1>3, <2>2, <2>3, Zenon DEF InHistory
<1>4. CASE c # 0
  <2> DEFINE m == Max({1, c - 1})
  <2>1. g = [h EXCEPT !.cursor = m]
    <3>1. h.cursor # NoEntry
      BY <1>1, <1>4, Zenon DEF NoEntry
    <3>2. Recalled(h, e) = [h EXCEPT !.cursor = Max({1, h.cursor - 1})]
      BY <3>1, Zenon DEF Recalled
    <3> QED
      BY <1>1, <3>2, Zenon
  <2>2. m \in 1 .. n
    <3>1. c - 1 \in Int /\ 1 \in Int
      BY <1>1
    <3>2. m \in {1, c - 1} /\ m >= 1
      BY <3>1, MaxOfTwo
    <3> HIDE DEF m
    <3> QED
      BY <1>1, <3>1, <3>2
  <2> HIDE DEF m
  <2>3. /\ g \in [entries : Seq(Seq(Chars)), cursor : Nat, draft : Seq(Chars)]
        /\ g.entries = h.entries /\ g.cursor = m /\ g.draft = h.draft
    <3>1. m \in Nat
      BY <1>1, <2>2
    <3> QED
      BY <1>2, <2>1, <3>1
  <2>4. m <= n
    BY <1>1, <2>2
  <2> QED
    BY <1>1, <1>4, <2>2, <2>3, <2>4, Zenon DEF InHistory
<1> QED
  BY <1>3, <1>4

(* The history left. *)
LEMMA LeftIs ==
  ASSUME NEW h, InHistory(h)
  PROVE  /\ InHistory(Left(h)) /\ Left(h).cursor = 0
         /\ Left(h).entries = h.entries /\ Left(h).draft = <<>>
<1>1. PICK g : g = Left(h)
  OBVIOUS
<1>2. g = [h EXCEPT !.cursor = 0, !.draft = <<>>]
  BY <1>1, Zenon DEF Left, NoEntry
<1>3. h \in [entries : Seq(Seq(Chars)), cursor : Nat, draft : Seq(Chars)]
  BY DEF InHistory
<1>4. /\ g \in [entries : Seq(Seq(Chars)), cursor : Nat, draft : Seq(Chars)]
      /\ g.cursor = 0 /\ g.entries = h.entries /\ g.draft = <<>>
  <2>1. <<>> \in Seq(Chars) /\ 0 \in Nat
    OBVIOUS
  <2> QED
    BY <1>2, <1>3, <2>1
<1>5. 0 <= Len(g.entries)
  <2>1. g.entries \in Seq(Seq(Chars))
    BY <1>4
  <2> QED
    BY <2>1
<1> QED
  BY <1>1, <1>4, <1>5, Zenon DEF InHistory

(* record. *)
LEMMA RecordedIs ==
  ASSUME NEW h, InHistory(h), NEW t \in Seq(Chars)
  PROVE  InHistory(Recorded(h, t)) /\ Recorded(h, t).cursor = 0
<1>1. PICK l, g : l = Left(h) /\ g = Recorded(h, t)
  OBVIOUS
<1>2. InHistory(l) /\ l.cursor = 0
  BY <1>1, LeftIs, Zenon
<1>3. l \in [entries : Seq(Seq(Chars)), cursor : Nat, draft : Seq(Chars)]
  BY <1>2 DEF InHistory
<1>4. PICK s : g = [l EXCEPT !.entries = s] /\ (s = l.entries \/ s = Append(l.entries, t))
  BY <1>1, <1>3 DEF Recorded
<1>5. s \in Seq(Seq(Chars)) /\ 0 <= Len(s)
  <2>1. l.entries \in Seq(Seq(Chars))
    BY <1>3
  <2>2. Append(l.entries, t) \in Seq(Seq(Chars))
    BY <2>1
  <2>3. s \in Seq(Seq(Chars))
    BY <1>4, <2>1, <2>2
  <2> QED
    BY <2>3
<1>6. /\ g \in [entries : Seq(Seq(Chars)), cursor : Nat, draft : Seq(Chars)]
      /\ g.cursor = 0 /\ g.entries = s
  BY <1>2, <1>3, <1>4, <1>5
<1> QED
  BY <1>1, <1>5, <1>6, Zenon DEF InHistory

(* The text of the history that takes the place of the input. *)
LEMMA Shown ==
  ASSUME EditorAssumption, EditorInv, InHistory(history'), NEW t \in Seq(Chars),
         Displays(SetText(t))
  PROVE  EditorInv' /\ input'.text = t
<1>1. InText(SetText(t)) /\ Settled(SetText(t)) /\ SetText(t).text = t
  BY SetTextIs, Zenon
<1>2. /\ InText(input') /\ Settled(input') /\ size' \in Sizes /\ InView(input', size')
      /\ input'.text = t
  BY <1>1, ShowsKeeps, Zenon DEF EditorInv
<1> QED
  BY <1>2, Zenon DEF EditorInv

(* An entry of the history. *)
LEMMA EntryIs ==
  ASSUME NEW h, InHistory(h), NEW i \in 1 .. Len(h.entries)
  PROVE  h.entries[i] \in Seq(Chars) /\ h.entries[i] \in ToSet(h.entries)
<1>1. h.entries \in Seq(Seq(Chars))
  BY DEF InHistory
<1> QED
  BY <1>1 DEF ToSet

(* Up. *)
LEMMA UpStep ==
  ASSUME EditorAssumption, EditorInv, Up
  PROVE  EditorInv' /\ LocalStep /\ DraftStep
<1>1. CASE CanBrowse(input)
  <2>1. /\ history.entries # <<>> /\ history' = Recalled(history, input)
        /\ Displays(SetText(history'.entries[history'.cursor]))
    BY <1>1, Zenon DEF Up
  <2>2. /\ InHistory(history') /\ history'.entries = history.entries
        /\ history'.cursor \in 1 .. Len(history.entries)
        /\ history'.draft = IF history.cursor = 0 THEN input.text ELSE history.draft
    BY <2>1, RecalledIs, Zenon DEF EditorInv
  <2>3. PICK t : t = history'.entries[history'.cursor]
    OBVIOUS
  <2>4. t \in Seq(Chars) /\ t \in ToSet(history.entries)
    BY <2>2, <2>3, EntryIs, Zenon
  <2>5. EditorInv' /\ input'.text = t
    BY <2>1, <2>2, <2>3, <2>4, Shown, Zenon
  <2>6. LocalStep
    BY <2>4, <2>5, Zenon DEF LocalStep
  <2>7. history'.cursor # 0
    BY <2>2
  <2>8. DraftStep
    BY <2>2, <2>7, Zenon DEF DraftStep, Browsing, NoEntry
  <2> QED
    BY <2>5, <2>6, <2>8
<1>2. CASE ~CanBrowse(input)
  <2>1. Displays(MoveUp(input)) /\ UNCHANGED history
    BY <1>2, Zenon DEF Up
  <2>2. Kept(input, MoveUp(input))
    BY VerticalMovesKeep, Zenon DEF EditorInv
  <2> QED
    BY <2>1, <2>2, EditedLocally, Zenon
<1> QED
  BY <1>1, <1>2

(* Down. *)
LEMMA DownStep ==
  ASSUME EditorAssumption, EditorInv, Down
  PROVE  EditorInv' /\ LocalStep /\ DraftStep
<1> DEFINE h == history
<1>0. /\ InHistory(h) /\ h \in [entries : Seq(Seq(Chars)), cursor : Nat, draft : Seq(Chars)]
      /\ h.cursor \in Nat /\ Len(h.entries) \in Nat /\ h.draft \in Seq(Chars)
  BY DEF EditorInv, InHistory
<1>1. CASE h.cursor = 0
  <2>1. Displays(MoveDown(input)) /\ UNCHANGED history
    BY <1>1, Zenon DEF Down, NoEntry
  <2>2. Kept(input, MoveDown(input))
    BY VerticalMovesKeep, Zenon DEF EditorInv
  <2> QED
    BY <2>1, <2>2, EditedLocally, Zenon
<1>2. CASE h.cursor # 0 /\ h.cursor < Len(h.entries)
  <2>1. /\ history' = [h EXCEPT !.cursor = h.cursor + 1]
        /\ Displays(SetText(h.entries[history'.cursor]))
    BY <1>2, Zenon DEF Down, NoEntry
  <2>2. h.cursor + 1 \in 1 .. Len(h.entries) /\ h.cursor + 1 \in Nat /\ h.cursor + 1 # 0 /\ h.cursor + 1 <= Len(h.entries)
    BY <1>0, <1>2
  <2>3. /\ history' \in [entries : Seq(Seq(Chars)), cursor : Nat, draft : Seq(Chars)]
        /\ history'.cursor = h.cursor + 1 /\ history'.entries = h.entries /\ history'.draft = h.draft
    BY <1>0, <2>1, <2>2
  <2>4. InHistory(history')
    BY <2>2, <2>3, Zenon DEF InHistory
  <2>5. PICK t : t = h.entries[history'.cursor]
    OBVIOUS
  <2>6. t \in Seq(Chars) /\ t \in ToSet(h.entries)
    BY <1>0, <2>2, <2>3, <2>5, EntryIs, Zenon
  <2>7. EditorInv' /\ input'.text = t
    BY <2>1, <2>4, <2>5, <2>6, Shown, Zenon
  <2>8. LocalStep
    BY <2>6, <2>7, Zenon DEF LocalStep
  <2>9. DraftStep
    BY <1>2, <2>2, <2>3, Zenon DEF DraftStep, Browsing, NoEntry
  <2> QED
    BY <2>7, <2>8, <2>9
<1>3. CASE h.cursor # 0 /\ ~(h.cursor < Len(h.entries))
  <2>1. history' = Left(h) /\ Displays(SetText(h.draft))
    BY <1>3, Zenon DEF Down, NoEntry
  <2>2. InHistory(history') /\ history'.cursor = 0
    BY <1>0, <2>1, LeftIs, Zenon
  <2>3. EditorInv' /\ input'.text = h.draft
    BY <1>0, <2>1, <2>2, Shown, Zenon
  <2>4. LocalStep
    BY <2>3, Zenon DEF LocalStep
  <2>5. DraftStep
    BY <2>2, <2>3, Zenon DEF DraftStep, Browsing, NoEntry
  <2> QED
    BY <2>3, <2>4, <2>5
<1> QED
  BY <1>1, <1>2, <1>3

(* Enter and Ctrl+C. *)
LEMMA ClearStep ==
  ASSUME EditorAssumption, EditorInv, Enter \/ CtrlC
  PROVE  EditorInv' /\ LocalStep /\ DraftStep
<1>1. input' = Empty /\ size' = size
  BY Zenon DEF Enter, CtrlC
<1>2. InHistory(history') /\ history'.cursor = 0
  <2>1. CASE Enter
    <3>1. input.text \in Seq(Chars)
      BY DEF EditorInv, InText, Edit
    <3> QED
      BY <2>1, <3>1, RecordedIs, Zenon DEF Enter, EditorInv
  <2>2. CASE CtrlC
    BY <2>2, LeftIs, Zenon DEF CtrlC, EditorInv
  <2> QED
    BY <2>1, <2>2
<1>3. /\ InText(input') /\ Settled(input') /\ size' \in Sizes /\ InView(input', size')
      /\ input'.text = <<>>
  <2>1. PICK s : s = size /\ s \in Sizes
    BY DEF EditorInv
  <2>2. /\ InText(Empty) /\ Settled(Empty) /\ InView(Empty, s)
        /\ Empty.text = <<>>
    BY <2>1, EmptyIs, Zenon
  <2> QED
    BY <1>1, <2>1, <2>2, Zenon
<1>4. EditorInv'
  BY <1>2, <1>3, Zenon DEF EditorInv
<1>5. LocalStep
  BY <1>3, Zenon DEF LocalStep
<1>6. DraftStep
  BY <1>2, <1>3, Zenon DEF DraftStep, Browsing, NoEntry
<1> QED
  BY <1>4, <1>5, <1>6

(* A resize. *)
LEMMA ResizeStep ==
  ASSUME EditorAssumption, EditorInv, NEW s \in Sizes, Resize(s)
  PROVE  EditorInv' /\ LocalStep /\ DraftStep
<1>1. size' = s /\ input' = Synced(input, s) /\ history' = history
  BY Zenon DEF Resize
<1>2. PICK g : g = input' /\ g = Synced(input, s)
  BY <1>1
<1>3. InText(g) /\ Settled(g) /\ InView(g, s) /\ g.text = input.text
  BY <1>2, SyncedKeeps, Zenon DEF EditorInv
<1>4. EditorInv'
  BY <1>1, <1>2, <1>3, Zenon DEF EditorInv
<1>5. LocalStep
  BY <1>2, <1>3, Zenon DEF LocalStep, Local
<1>6. DraftStep
  BY <1>1, Zenon DEF DraftStep
<1> QED
  BY <1>4, <1>5, <1>6

(* Every step keeps the invariant and is one that the properties allow. *)
LEMMA EditorStep ==
  ASSUME EditorAssumption, EditorInv, EditorNext
  PROVE  EditorInv' /\ LocalStep /\ DraftStep
<1>1. ASSUME NEW s \in Seq(Chars), Type(s) PROVE EditorInv' /\ LocalStep /\ DraftStep
  <2>1. Displays(Insert(input, s)) /\ UNCHANGED history
    BY <1>1, Zenon DEF Type
  <2>2. Kept(input, Insert(input, s))
    BY InsertKeeps, Zenon DEF EditorInv
  <2> QED
    BY <2>1, <2>2, EditedLocally, Zenon
<1>2. ASSUME NEW c \in Chars, Type(<<c>>) PROVE EditorInv' /\ LocalStep /\ DraftStep
  <2>1. <<c>> \in Seq(Chars)
    OBVIOUS
  <2> QED
    BY <1>1, <1>2, <2>1
<1>3. ASSUME NEW c \in Chars, NEW d \in Chars, Type(<<c, d>>) PROVE EditorInv' /\ LocalStep /\ DraftStep
  <2>1. <<c, d>> \in Seq(Chars)
    OBVIOUS
  <2> QED
    BY <1>1, <1>3, <2>1
<1>4. CASE EditKey
  <2>1. PICK f \in Edits(input) : Displays(f) /\ UNCHANGED history
    BY <1>4, Zenon DEF EditKey
  <2>2. Kept(input, f)
    BY EditsKeep, Zenon DEF EditorInv
  <2> QED
    BY <2>1, <2>2, EditedLocally, Zenon
<1>5. CASE MoveKey
  <2>1. PICK f \in Moves(input) : Displays(f) /\ UNCHANGED history
    BY <1>5, Zenon DEF MoveKey
  <2>2. Kept(input, f)
    BY MovesKeep, Zenon DEF EditorInv
  <2> QED
    BY <2>1, <2>2, EditedLocally, Zenon
<1>6. CASE Up
  BY <1>6, UpStep, Zenon
<1>7. CASE Down
  BY <1>7, DownStep, Zenon
<1>8. CASE Enter \/ CtrlC
  BY <1>8, ClearStep, Zenon
<1>9. ASSUME NEW s \in Sizes, Resize(s) PROVE EditorInv' /\ LocalStep /\ DraftStep
  BY <1>9, ResizeStep, Zenon
<1> QED
  BY <1>2, <1>3, <1>4, <1>5, <1>6, <1>7, <1>8, <1>9, Zenon DEF EditorNext

(* So does a step that changes nothing here. *)
LEMMA EditorIdle ==
  ASSUME EditorInv, UNCHANGED editorVars
  PROVE  EditorInv' /\ LocalStep /\ DraftStep
<1>1. input' = input /\ history' = history /\ size' = size
  BY DEF editorVars
<1> QED
  BY <1>1, Zenon DEF EditorInv, LocalStep, Local, DraftStep

(* The invariant holds at the start. *)
LEMMA EditorStarts ==
  ASSUME EditorAssumption, EditorInit
  PROVE  EditorInv
<1>1. InHistory(history)
  <2>1. <<>> \in Seq(Seq(Chars)) /\ <<>> \in Seq(Chars) /\ 0 \in Nat /\ 0 <= Len(<<>>)
    OBVIOUS
  <2>2. history = [entries |-> <<>>, cursor |-> 0, draft |-> <<>>]
    BY DEF EditorInit, NoEntry
  <2> QED
    BY <2>1, <2>2 DEF InHistory
<1>2. input = Empty /\ size \in Sizes
  BY Zenon DEF EditorInit
<1>3. InText(input) /\ Settled(input) /\ InView(input, size)
  BY <1>2, EmptyIs, Zenon
<1> QED
  BY <1>1, <1>2, <1>3, Zenon DEF EditorInv

(* The invariant of the editor. *)
LEMMA EditorInvariant ==
  ASSUME EditorAssumption
  PROVE  EditorSpec => []EditorInv
<1>1. EditorInit => EditorInv
  BY EditorStarts
<1>2. EditorInv /\ [EditorNext]_editorVars => EditorInv'
  BY EditorStep, EditorIdle
<1> QED
  BY <1>1, <1>2, PTL DEF EditorSpec

(* In every reachable state the line with the cursor is one of those the input
   box shows, for terminals of any size, however small, and Up and Down lead back
   to where the cursor was (sync_input_viewport, move_vertical). *)
THEOREM EditorCursorPlaced ==
  ASSUME EditorAssumption
  PROVE  EditorSpec => []CursorPlaced
<1>1. EditorInv => CursorPlaced
  <2> SUFFICES ASSUME EditorInv PROVE CursorPlaced
    OBVIOUS
  <2>1. VerticalReturns
    BY ReturnsVertically, Zenon DEF EditorInv
  <2>2. CursorInView
    BY Zenon DEF EditorInv, InView, CursorInView
  <2> QED
    BY <2>1, <2>2, Zenon DEF CursorPlaced
<1> QED
  BY <1>1, EditorInvariant, PTL

(* Every edit adds text at the cursor or takes it away on one side of it; only
   recalling, submitting and clearing replace the text (handle_input_key). *)
THEOREM EditorEditsStayLocal ==
  ASSUME EditorAssumption
  PROVE  EditorSpec => EditsStayLocal
<1>1. EditorInv /\ [EditorNext]_editorVars => LocalStep
  BY EditorStep, EditorIdle
<1>2. LocalStep =>
        \/ input'.text = input.text
        \/ /\ After(input') = After(input)
           /\ IsPrefix(Before(input), Before(input'))
        \/ /\ After(input') = After(input)
           /\ IsPrefix(Before(input'), Before(input))
        \/ /\ Before(input') = Before(input)
           /\ IsSuffix(After(input'), After(input))
        \/ input'.text \in ToSet(history.entries) \cup {history.draft, <<>>}
  BY Zenon DEF LocalStep, Local
<1> QED
  BY <1>1, <1>2, EditorInvariant, PTL DEF EditorSpec, EditsStayLocal

(* What was being typed when the history was entered is what Down brings back at
   its end, whatever is recalled and edited on the way (InputHistory). *)
THEOREM EditorDraftKept ==
  ASSUME EditorAssumption
  PROVE  EditorSpec => DraftKept
<1>1. EditorInv /\ [EditorNext]_editorVars => DraftStep
  BY EditorStep, EditorIdle
<1>2. DraftStep =>
        /\ ~Browsing(history) /\ Browsing(history') => history'.draft = input.text
        /\ Browsing(history) /\ Browsing(history') => history'.draft = history.draft
        /\ Browsing(history) /\ ~Browsing(history') =>
             input'.text \in {history.draft, <<>>}
  BY Zenon DEF DraftStep
<1> QED
  BY <1>1, <1>2, EditorInvariant, PTL DEF EditorSpec, DraftKept
=============================================================================
