--------------------------- MODULE FileToolsProofs ---------------------------
(***************************************************************************)
(* The mutation queue and the writes of FileTools, for any calls, files,   *)
(* texts and requests: locks are released, and write and edit take effect  *)
(* at once or not at all.                                                  *)
(***************************************************************************)
EXTENDS FileTools, SequenceTheorems, TLAPS

-----------------------------------------------------------------------------
(***************************************************************************)
(* Facts about data.                                                       *)
(***************************************************************************)

LEMMA AppendSpecified ==
  ASSUME NEW S, NEW s \in Seq(S), NEW x \in S
  PROVE  /\ Append(s, x) \in Seq(S) /\ Len(Append(s, x)) = Len(s) + 1
         /\ \A i \in 1 .. Len(s) : Append(s, x)[i] = s[i]
         /\ Append(s, x)[Len(s) + 1] = x
  OBVIOUS

LEMMA TailSpecified ==
  ASSUME NEW S, NEW s \in Seq(S), s # <<>>
  PROVE  /\ Len(s) \in Nat \ {0} /\ Head(s) = s[1] /\ Head(s) \in S
         /\ Tail(s) \in Seq(S) /\ Len(Tail(s)) = Len(s) - 1
         /\ \A i \in 1 .. Len(s) - 1 : Tail(s)[i] = s[i + 1]
  OBVIOUS

(* No request is mistaken for that of an idle call. *)
LEMMA AskedIsNotIdle ==
  ASSUME NEW r \in Requests
  PROVE  r # Idle /\ r.kind \in {"write", "edit", "read"} /\ r.file \in Files
  BY FileAssumption DEF Idle

-----------------------------------------------------------------------------
(***************************************************************************)
(* The invariant.  The calls in the queue of a file are those that work on *)
(* it or wait for it, each of them once, and all but the first wait.       *)
(***************************************************************************)

Holding == {"held", "ready", "writing"}
Waiting == {"locking"} \cup Holding

Domains ==
  /\ disk = [f \in Files |-> disk[f]] /\ before = [f \in Files |-> before[f]]
  /\ buffer = [c \in Calls |-> buffer[c]]

LineOf(q, f) ==
  /\ \A i \in 1 .. Len(q) : pc[q[i]] \in Waiting /\ File(q[i]) = f
  /\ \A i \in 1 .. Len(q) : i > 1 => pc[q[i]] = "locking"
  /\ \A i, j \in 1 .. Len(q) : q[i] = q[j] => i = j

InLine(c, q) == \E i \in 1 .. Len(q) : q[i] = c

Lines == \A f \in Files : LineOf(queue[f], f)

Placed(c) ==
  /\ wanted[c] = Idle <=> pc[c] = "idle"
  /\ pc[c] \in Waiting => wanted[c].kind \in {"write", "edit"} /\ InLine(c, queue[File(c)])
  /\ pc[c] = "paging" => wanted[c].kind = "read"
  /\ outcome[c] = "none" <=> pc[c] # "over"

QueueInv == TypeOK /\ Domains /\ Lines /\ \A c \in Calls : Placed(c)

(* The holder is the first in line, and the only one. *)
LEMMA HolderIsFirst ==
  ASSUME QueueInv, NEW c \in Calls, pc[c] \in Holding
  PROVE  /\ File(c) \in Files /\ queue[File(c)] # <<>> /\ Len(queue[File(c)]) \in Nat \ {0}
         /\ queue[File(c)][1] = c
         /\ \A d \in Calls : pc[d] \in Holding /\ File(d) = File(c) => d = c
<1>1. File(c) \in Files /\ wanted[c] \in Requests
  <2>1. wanted[c] \in Requests
    BY DEF QueueInv, TypeOK, Placed, Holding, Waiting
  <2> QED
    BY <2>1, AskedIsNotIdle DEF File
<1>2. PICK q \in Seq(Calls) : q = queue[File(c)]
  BY <1>1 DEF QueueInv, TypeOK
<1>3. LineOf(q, File(c))
  BY <1>1, <1>2 DEF QueueInv, Lines
<1>4. ASSUME NEW d \in Calls, pc[d] \in Holding, File(d) = File(c)
      PROVE  Len(q) \in Nat \ {0} /\ q[1] = d
  <2>1. PICK i \in 1 .. Len(q) : q[i] = d
    BY <1>2, <1>4 DEF QueueInv, Placed, InLine, Holding, Waiting
  <2>2. i = 1
    BY <1>3, <1>4, <2>1 DEF LineOf, Holding
  <2> QED
    BY <2>1, <2>2
<1> QED
  BY <1>1, <1>2, <1>4

LEMMA InitQueue == Init => QueueInv
<1> SUFFICES ASSUME Init PROVE QueueInv
  OBVIOUS
<1>1. TypeOK
  <2>1. queue \in [Files -> Seq(Calls)]
    <3>1. <<>> \in Seq(Calls)
      OBVIOUS
    <3> QED
      BY <3>1 DEF Init
  <2>2. wanted \in [Calls -> Requests \cup {Idle}]
    BY DEF Init
  <2> QED
    BY <2>1, <2>2 DEF Init, TypeOK
<1>2. Domains
  BY DEF Init, Domains
<1>3. Lines
  <2> SUFFICES ASSUME NEW f \in Files PROVE LineOf(queue[f], f)
    BY DEF Lines
  <2>1. Len(queue[f]) = 0
    BY DEF Init
  <2> QED
    BY <2>1 DEF LineOf
<1>4. \A c \in Calls : Placed(c)
  BY DEF Init, Placed, Waiting, Holding
<1> QED
  BY <1>1, <1>2, <1>3, <1>4 DEF QueueInv

(* A step of one call that leaves the queues: the call goes from one place *)
(* of those that hold the lock to another, or pages.                       *)
LEMMA MovesOn ==
  ASSUME QueueInv, NEW c \in Calls, NEW p, UNCHANGED <<queue, wanted>>,
         pc' = [pc EXCEPT ![c] = p],
         \/ /\ pc[c] \in Waiting /\ p \in Holding
            /\ pc[c] = "locking" => FirstInLine(c)
            /\ outcome' = outcome
         \/ /\ pc[c] = "paging" /\ p = "over"
            /\ outcome' = [outcome EXCEPT ![c] = outcome'[c]] /\ outcome'[c] # "none"
  PROVE  Lines' /\ \A d \in Calls : Placed(d)'
<1> USE DEF QueueInv
<1>t. /\ pc \in [Calls -> {"idle", "locking", "held", "ready", "writing", "paging", "over"}]
      /\ queue \in [Files -> Seq(Calls)]
      /\ outcome \in [Calls -> {"none", "done", "aborted", "failed"}]
  BY DEF TypeOK
<1>1. /\ pc'[c] = p /\ \A d \in Calls : d # c => pc'[d] = pc[d]
      /\ \A d : File(d)' = File(d)
  BY <1>t DEF File
<1>2. Lines'
  <2> SUFFICES ASSUME NEW f \in Files PROVE LineOf(queue[f], f)'
    BY DEF Lines
  <2>1. PICK q \in Seq(Calls) : q = queue[f] /\ q = queue'[f]
    BY <1>t
  <2>2. LineOf(q, f)
    BY <2>1 DEF Lines
  <2>3. \A i \in 1 .. Len(q) : q[i] \in Calls
    OBVIOUS
  <2>4. \A i \in 1 .. Len(q) : q[i] = c => i = 1 /\ p \in Waiting
    <3> SUFFICES ASSUME NEW i \in 1 .. Len(q), q[i] = c PROVE i = 1 /\ p \in Waiting
      OBVIOUS
    <3>1. pc[c] \in Waiting /\ File(c) = f
      BY <2>2 DEF LineOf
    <3>2. p \in Holding
      BY <3>1 DEF Waiting, Holding
    <3>3. CASE pc[c] = "locking"
      <4>1. q[1] = c
        BY <2>1, <3>1, <3>3 DEF FirstInLine, Holding
      <4> QED
        BY <2>2, <3>2, <4>1 DEF LineOf, Waiting
    <3>4. CASE pc[c] # "locking"
      BY <2>2, <3>2, <3>4 DEF LineOf, Waiting
    <3> QED
      BY <3>3, <3>4
  <2>5. \A i \in 1 .. Len(q) : pc'[q[i]] \in Waiting /\ File(q[i])' = f
    <3> SUFFICES ASSUME NEW i \in 1 .. Len(q) PROVE pc'[q[i]] \in Waiting /\ File(q[i])' = f
      OBVIOUS
    <3>1. pc[q[i]] \in Waiting /\ File(q[i]) = f
      BY <2>2 DEF LineOf
    <3> QED
      BY <1>1, <2>3, <2>4, <3>1
  <2>6. \A i \in 1 .. Len(q) : i > 1 => pc'[q[i]] = "locking"
    BY <1>1, <2>2, <2>3, <2>4 DEF LineOf
  <2> QED
    BY <2>1, <2>2, <2>5, <2>6 DEF LineOf
<1>3. ASSUME NEW d \in Calls PROVE Placed(d)'
  <2>1. Placed(d)
    OBVIOUS
  <2>2. CASE d = c
    BY <1>1, <1>t, <2>1, <2>2 DEF Placed, InLine, Waiting, Holding
  <2>3. CASE d # c
    BY <1>1, <1>t, <2>1, <2>3 DEF Placed, InLine, Waiting, Holding
  <2> QED
    BY <2>2, <2>3
<1> QED
  BY <1>2, <1>3

(* A call that holds the lock ends and passes it on. *)
LEMMA PassesOn ==
  ASSUME QueueInv, NEW c \in Calls, pc[c] \in Holding, Leave(c), UNCHANGED wanted, To(c, "over"),
         outcome' = [outcome EXCEPT ![c] = outcome'[c]], outcome'[c] # "none"
  PROVE  queue' \in [Files -> Seq(Calls)] /\ Lines' /\ \A d \in Calls : Placed(d)'
<1> USE DEF QueueInv
<1>t. /\ pc \in [Calls -> {"idle", "locking", "held", "ready", "writing", "paging", "over"}]
      /\ queue \in [Files -> Seq(Calls)]
      /\ outcome \in [Calls -> {"none", "done", "aborted", "failed"}]
  BY DEF TypeOK
<1>h. /\ File(c) \in Files /\ queue[File(c)] # <<>> /\ queue[File(c)][1] = c
  BY HolderIsFirst
<1>1. /\ pc'[c] = "over" /\ \A d \in Calls : d # c => pc'[d] = pc[d]
      /\ \A d : File(d)' = File(d)
  BY <1>t DEF File, To
<1>2. /\ queue'[File(c)] = Tail(queue[File(c)])
      /\ \A f \in Files : f # File(c) => queue'[f] = queue[f]
      /\ queue' \in [Files -> Seq(Calls)]
  BY <1>t, <1>h, TailSpecified DEF Leave
<1>3. PICK q \in Seq(Calls) : q = queue[File(c)]
  BY <1>t, <1>h
<1>4. PICK r \in Seq(Calls) : r = Tail(q)
  BY <1>3, <1>h, TailSpecified
<1>5. /\ Len(q) \in Nat \ {0} /\ Len(r) = Len(q) - 1 /\ \A i \in 1 .. Len(r) : r[i] = q[i + 1]
  BY <1>3, <1>4, <1>h, TailSpecified
<1>6. LineOf(q, File(c)) /\ q[1] = c
  BY <1>3, <1>h DEF Lines
<1>7. \A i \in 1 .. Len(r) : r[i] \in Calls /\ r[i] # c /\ pc[r[i]] = "locking"
  <2> SUFFICES ASSUME NEW i \in 1 .. Len(r) PROVE r[i] \in Calls /\ r[i] # c /\ pc[r[i]] = "locking"
    OBVIOUS
  <2>1. i + 1 \in 1 .. Len(q) /\ i + 1 > 1 /\ 1 \in 1 .. Len(q) /\ r[i] = q[i + 1] /\ i + 1 # 1
    BY <1>5
  <2> QED
    BY <1>6, <2>1 DEF LineOf
<1>8. Lines'
  <2> SUFFICES ASSUME NEW f \in Files PROVE LineOf(queue[f], f)'
    BY DEF Lines
  <2>1. CASE f = File(c)
    <3>1. \A i \in 1 .. Len(r) : pc'[r[i]] = "locking" /\ File(r[i])' = f
      <4> SUFFICES ASSUME NEW i \in 1 .. Len(r) PROVE pc'[r[i]] = "locking" /\ File(r[i])' = f
        OBVIOUS
      <4>1. i + 1 \in 1 .. Len(q) /\ r[i] = q[i + 1]
        BY <1>5
      <4> QED
        BY <1>1, <1>6, <1>7, <2>1, <4>1 DEF LineOf
    <3>2. \A i, j \in 1 .. Len(r) : r[i] = r[j] => i = j
      <4> SUFFICES ASSUME NEW i \in 1 .. Len(r), NEW j \in 1 .. Len(r), r[i] = r[j] PROVE i = j
        OBVIOUS
      <4>1. i + 1 \in 1 .. Len(q) /\ j + 1 \in 1 .. Len(q) /\ q[i + 1] = q[j + 1]
        BY <1>5
      <4>2. i + 1 = j + 1
        BY <1>6, <4>1 DEF LineOf
      <4> QED
        BY <1>5, <4>2
    <3>3. queue'[f] = r
      BY <1>2, <1>3, <1>4, <2>1
    <3> QED
      BY <3>1, <3>2, <3>3 DEF LineOf, Waiting
  <2>2. CASE f # File(c)
    <3>1. PICK p \in Seq(Calls) : p = queue[f] /\ p = queue'[f]
      BY <1>t, <1>2, <2>2
    <3>2. LineOf(p, f)
      BY <3>1 DEF Lines
    <3>3. \A i \in 1 .. Len(p) : p[i] \in Calls /\ p[i] # c
      BY <2>2, <3>2 DEF LineOf
    <3> QED
      BY <1>1, <3>1, <3>2, <3>3 DEF LineOf
  <2> QED
    BY <2>1, <2>2
<1>9. ASSUME NEW d \in Calls PROVE Placed(d)'
  <2>1. Placed(d)
    OBVIOUS
  <2>2. CASE d = c
    BY <1>1, <1>t, <2>1, <2>2 DEF Placed, Waiting, Holding
  <2>3. CASE d # c /\ pc[d] \in Waiting
    <3>1. InLine(d, queue[File(d)])
      BY <2>1, <2>3 DEF Placed
    <3>2. File(d) \in Files
      BY <2>1, <2>3, AskedIsNotIdle DEF Placed, File, TypeOK, Waiting, Holding
    <3>3. InLine(d, queue'[File(d)])
      <4>1. CASE File(d) # File(c)
        BY <1>2, <3>1, <3>2, <4>1
      <4>2. CASE File(d) = File(c)
        <5>1. PICK i \in 1 .. Len(q) : q[i] = d
          BY <1>3, <3>1, <4>2 DEF InLine
        <5>2. i # 1
          BY <1>6, <2>3, <5>1
        <5>3. PICK k \in 1 .. Len(r) : k + 1 = i
          <6>1. i - 1 \in 1 .. Len(r) /\ (i - 1) + 1 = i
            BY <1>5, <5>1, <5>2
          <6> QED
            BY <6>1
        <5>4. r[k] = d
          BY <1>5, <5>1, <5>3
        <5> QED
          BY <1>2, <1>3, <1>4, <4>2, <5>3, <5>4 DEF InLine
      <4> QED
        BY <4>1, <4>2
    <3> QED
      BY <1>1, <1>t, <2>1, <2>3, <3>3 DEF Placed, InLine
  <2>4. CASE d # c /\ pc[d] \notin Waiting
    BY <1>1, <1>t, <2>1, <2>4 DEF Placed
  <2> QED
    BY <2>2, <2>3, <2>4
<1> QED
  BY <1>2, <1>8, <1>9

(* A call joins the line of its file, behind everybody. *)
LEMMA JoinsLine ==
  ASSUME QueueInv, NEW c \in Calls, Ask(c)
  PROVE  QueueInv'
<1> USE DEF QueueInv
<1>t. /\ pc \in [Calls -> {"idle", "locking", "held", "ready", "writing", "paging", "over"}]
      /\ queue \in [Files -> Seq(Calls)] /\ wanted \in [Calls -> Requests \cup {Idle}]
  BY DEF TypeOK
<1>1. PICK r \in Requests :
        /\ wanted' = [wanted EXCEPT ![c] = r]
        /\ pc' = [pc EXCEPT ![c] = IF r.kind = "read" THEN "paging" ELSE "locking"]
        /\ queue' = IF r.kind = "read" THEN queue ELSE [queue EXCEPT ![r.file] = Append(@, c)]
  BY DEF Ask, To
<1>2. /\ r # Idle /\ r.kind \in {"write", "edit", "read"} /\ r.file \in Files
  BY AskedIsNotIdle
<1>3. /\ wanted'[c] = r /\ pc'[c] = IF r.kind = "read" THEN "paging" ELSE "locking"
      /\ \A d \in Calls : d # c => pc'[d] = pc[d] /\ wanted'[d] = wanted[d] /\ File(d)' = File(d)
      /\ File(c)' = r.file
  BY <1>1, <1>t DEF File
<1>4. \A f \in Files : queue'[f] = IF r.kind # "read" /\ f = r.file THEN Append(queue[f], c)
                                   ELSE queue[f]
  BY <1>1, <1>2, <1>t
<1>5. TypeOK'
  <2>1. queue' \in [Files -> Seq(Calls)]
    BY <1>1, <1>2, <1>t, AppendSpecified
  <2>2. wanted' \in [Calls -> Requests \cup {Idle}]
    BY <1>1, <1>t
  <2>3. pc' \in [Calls -> {"idle", "locking", "held", "ready", "writing", "paging", "over"}]
    BY <1>1, <1>t
  <2> QED
    BY <2>1, <2>2, <2>3 DEF TypeOK, Ask, readVars
<1>6. Domains'
  BY DEF Domains, Ask
<1>7. Lines'
  <2> SUFFICES ASSUME NEW f \in Files PROVE LineOf(queue[f], f)'
    BY DEF Lines
  <2>1. PICK q \in Seq(Calls) : q = queue[f]
    BY <1>t
  <2>2. LineOf(q, f) /\ pc[c] = "idle"
    BY <2>1 DEF Lines, Ask
  <2>3. \A i \in 1 .. Len(q) : q[i] \in Calls /\ q[i] # c
    BY <2>2 DEF LineOf, Waiting, Holding
  <2>4. \A i \in 1 .. Len(q) : pc'[q[i]] = pc[q[i]] /\ File(q[i])' = File(q[i])
    BY <1>3, <2>3
  <2>5. CASE queue'[f] = q
    BY <2>2, <2>4, <2>5 DEF LineOf
  <2>6. CASE r.kind # "read" /\ f = r.file
    <3>1. PICK p \in Seq(Calls) : p = Append(q, c)
      BY AppendSpecified
    <3>2. /\ Len(p) = Len(q) + 1 /\ p[Len(q) + 1] = c
          /\ \A i \in 1 .. Len(q) : p[i] = q[i]
      BY <3>1, AppendSpecified
    <3>3. queue'[f] = p
      BY <1>4, <2>1, <2>6, <3>1
    <3>4. PICK n \in Nat : n = Len(q)
      OBVIOUS
    <3>5. \A i \in 1 .. n + 1 : i = n + 1 \/ i \in 1 .. n
      OBVIOUS
    <3>6. ASSUME NEW i \in 1 .. n + 1
          PROVE  pc'[p[i]] \in Waiting /\ File(p[i])' = f /\ (i > 1 => pc'[p[i]] = "locking")
      <4>1. CASE i = n + 1
        BY <1>3, <2>6, <3>2, <3>4, <4>1 DEF Waiting
      <4>2. CASE i \in 1 .. n
        BY <2>2, <2>4, <3>2, <3>4, <4>2 DEF LineOf
      <4> QED
        BY <3>5, <4>1, <4>2
    <3>7. ASSUME NEW i \in 1 .. n + 1, NEW j \in 1 .. n + 1, p[i] = p[j] PROVE i = j
      <4>1. CASE i \in 1 .. n /\ j \in 1 .. n
        BY <2>2, <3>2, <3>4, <3>7, <4>1 DEF LineOf
      <4>2. CASE i = n + 1
        BY <2>3, <3>2, <3>4, <3>5, <3>7, <4>2
      <4>3. CASE j = n + 1
        BY <2>3, <3>2, <3>4, <3>5, <3>7, <4>3
      <4> QED
        BY <3>5, <4>1, <4>2, <4>3
    <3> QED
      BY <3>2, <3>3, <3>4, <3>6, <3>7 DEF LineOf
  <2> QED
    BY <1>4, <2>1, <2>5, <2>6
<1>8. ASSUME NEW d \in Calls PROVE Placed(d)'
  <2>1. Placed(d)
    OBVIOUS
  <2>2. CASE d = c
    <3>1. outcome'[c] = "none" /\ pc[c] = "idle"
      BY <2>1, <2>2 DEF Placed, Ask
    <3>2. CASE r.kind = "read"
      BY <1>2, <1>3, <2>2, <3>1, <3>2 DEF Placed, Waiting, Holding
    <3>3. CASE r.kind # "read"
      <4>1. PICK q \in Seq(Calls) : q = queue[r.file]
        BY <1>2, <1>t
      <4>2. queue'[r.file] = Append(q, c)
        BY <1>2, <1>4, <3>3, <4>1
      <4>3. InLine(c, queue'[r.file])
        BY <4>1, <4>2 DEF InLine
      <4> QED
        BY <1>2, <1>3, <2>2, <3>1, <3>3, <4>3 DEF Placed, InLine
    <3> QED
      BY <3>2, <3>3
  <2>3. CASE d # c
    <3>1. pc'[d] = pc[d] /\ wanted'[d] = wanted[d] /\ File(d)' = File(d) /\ outcome'[d] = outcome[d]
      BY <1>3, <2>3 DEF Ask
    <3>2. CASE pc[d] \in Waiting
      <4>1. File(d) \in Files
        BY <1>t, <2>1, <3>2, AskedIsNotIdle DEF Placed, File, Waiting, Holding
      <4>2. PICK q \in Seq(Calls) : q = queue[File(d)]
        BY <1>t, <4>1
      <4>3. PICK i \in 1 .. Len(q) : q[i] = d
        BY <2>1, <3>2, <4>2 DEF Placed, InLine
      <4>4. InLine(d, q) /\ InLine(d, Append(q, c))
        <5>1. Len(Append(q, c)) = Len(q) + 1 /\ Append(q, c)[i] = d
          BY <4>3, AppendSpecified
        <5>2. i \in 1 .. Len(q) + 1
          BY <4>3
        <5> QED
          BY <4>3, <5>1, <5>2 DEF InLine
      <4>5. InLine(d, queue'[File(d)])
        BY <1>4, <4>1, <4>2, <4>4
      <4> QED
        BY <2>1, <3>1, <3>2, <4>5 DEF Placed, InLine
    <3>3. CASE pc[d] \notin Waiting
      BY <2>1, <3>1, <3>3 DEF Placed
    <3> QED
      BY <3>2, <3>3
  <2> QED
    BY <2>2, <2>3
<1> QED
  BY <1>5, <1>6, <1>7, <1>8

LEMMA StepQueue == QueueInv /\ [Next]_vars => QueueInv'
<1> SUFFICES ASSUME QueueInv, [Next]_vars PROVE QueueInv'
  OBVIOUS
<1> USE DEF QueueInv, readVars
<1>t. /\ pc \in [Calls -> {"idle", "locking", "held", "ready", "writing", "paging", "over"}]
      /\ outcome \in [Calls -> {"none", "done", "aborted", "failed"}]
  BY DEF TypeOK
<1>1. ASSUME UNCHANGED <<queue, wanted, pc, outcome, disk, before, buffer, steady>>, cancelled' \in BOOLEAN
      PROVE  QueueInv'
  BY <1>1 DEF TypeOK, Domains, Lines, LineOf, Placed, InLine, File
<1>2. CASE Cancel
  BY <1>1, <1>2 DEF Cancel
<1>3. CASE UNCHANGED vars
  BY <1>1, <1>3 DEF vars, TypeOK
<1>4. ASSUME NEW c \in Calls, Ask(c) PROVE QueueInv'
  BY <1>4, JoinsLine
<1>5. ASSUME NEW c \in Calls, Enter(c) PROVE QueueInv'
  <2>1. Lines' /\ \A d \in Calls : Placed(d)'
    BY <1>5, MovesOn DEF Enter, To, Waiting, Holding
  <2> QED
    BY <1>5, <1>t, <2>1 DEF Enter, To, TypeOK, Domains
<1>6. ASSUME NEW c \in Calls, Prepare(c) PROVE QueueInv'
  <2>1. Lines' /\ \A d \in Calls : Placed(d)'
    BY <1>6, MovesOn DEF Prepare, To, Waiting, Holding
  <2>2. TypeOK'
    BY <1>6, <1>t DEF Prepare, To, TypeOK
  <2>3. Domains'
    BY <1>6 DEF Prepare, Domains
  <2> QED
    BY <2>1, <2>2, <2>3
<1>7. ASSUME NEW c \in Calls, BeginWrite(c) PROVE QueueInv'
  <2>1. Lines' /\ \A d \in Calls : Placed(d)'
    BY <1>7, MovesOn DEF BeginWrite, To, Waiting, Holding
  <2>2. TypeOK'
    BY <1>7, <1>t DEF BeginWrite, Touched, To, TypeOK
  <2>3. Domains'
    BY <1>7 DEF BeginWrite, Domains
  <2> QED
    BY <2>1, <2>2, <2>3
<1>8. ASSUME NEW c \in Calls, NEW how \in {"aborted", "failed"}, pc[c] \in Holding, Leave(c), Finish(c, how),
             UNCHANGED <<disk, buffer>>, before' = [f \in Files |-> before'[f]]
      PROVE  QueueInv'
  <2>1. /\ To(c, "over") /\ outcome' = [outcome EXCEPT ![c] = how]
        /\ UNCHANGED <<wanted, cancelled, steady>> /\ how # "none"
        /\ outcome' = [outcome EXCEPT ![c] = outcome'[c]] /\ outcome'[c] # "none"
    BY <1>8, <1>t DEF Finish
  <2>2. queue' \in [Files -> Seq(Calls)] /\ Lines' /\ \A d \in Calls : Placed(d)'
    BY <1>8, <2>1, PassesOn
  <2>3. TypeOK'
    BY <1>t, <2>1, <2>2 DEF To, TypeOK
  <2>4. Domains'
    BY <1>8 DEF Domains
  <2> QED
    BY <2>2, <2>3, <2>4
<1>9. ASSUME NEW c \in Calls, Abort(c) \/ PrepareFails(c) \/ Refuse(c) PROVE QueueInv'
  <2>1. before' = before /\ before = [f \in Files |-> before[f]] /\ UNCHANGED <<disk, buffer>>
    BY <1>9 DEF Abort, PrepareFails, Refuse, Domains
  <2>2. /\ pc[c] \in Holding /\ Leave(c)
        /\ \E how \in {"aborted", "failed"} : Finish(c, how)
    BY <1>9 DEF Abort, PrepareFails, Refuse, Holding
  <2> QED
    BY <1>8, <2>1, <2>2
<1>10. ASSUME NEW c \in Calls, WriteFails(c) PROVE QueueInv'
  <2>1. before' = [f \in Files |-> before'[f]] /\ pc[c] \in Holding
    BY <1>10 DEF WriteFails, Domains, Holding
  <2> QED
    BY <1>8, <1>10, <2>1 DEF WriteFails
<1>11. ASSUME NEW c \in Calls, EndWrite(c) PROVE QueueInv'
  <2>1. /\ pc[c] \in Holding /\ Leave(c) /\ UNCHANGED wanted /\ To(c, "over")
        /\ outcome' = [outcome EXCEPT ![c] = outcome'[c]] /\ outcome'[c] # "none"
    BY <1>11, <1>t DEF EndWrite, Holding
  <2>2. queue' \in [Files -> Seq(Calls)] /\ Lines' /\ \A d \in Calls : Placed(d)'
    BY <2>1, PassesOn
  <2>3. TypeOK'
    BY <1>11, <1>t, <2>2 DEF EndWrite, Touched, To, TypeOK
  <2>4. Domains'
    BY <1>11 DEF EndWrite, Domains
  <2> QED
    BY <2>2, <2>3, <2>4
<1>12. ASSUME NEW c \in Calls, ReadOn(c) PROVE QueueInv'
  <2>1. /\ UNCHANGED <<disk, queue, wanted, buffer, cancelled, before, steady>> /\ pc[c] = "paging"
        /\ \E over \in BOOLEAN :
             /\ pc' = [pc EXCEPT ![c] = IF over THEN "over" ELSE @]
             /\ outcome' = [outcome EXCEPT ![c] = IF over THEN "done" ELSE @]
    BY <1>12 DEF ReadOn
  <2>2. CASE pc' = [pc EXCEPT ![c] = @] /\ outcome' = [outcome EXCEPT ![c] = @]
    <3>1. pc' = pc /\ outcome' = outcome
      BY <1>t, <2>2
    <3>2. cancelled' \in BOOLEAN
      BY <2>1 DEF TypeOK
    <3> QED
      BY <1>1, <2>1, <3>1, <3>2
  <2>3. CASE pc' = [pc EXCEPT ![c] = "over"] /\ outcome' = [outcome EXCEPT ![c] = "done"]
    <3>1. outcome' = [outcome EXCEPT ![c] = outcome'[c]] /\ outcome'[c] # "none"
      BY <1>t, <2>3
    <3>2. Lines' /\ \A d \in Calls : Placed(d)'
      BY <2>1, <2>3, <3>1, MovesOn
    <3> QED
      BY <1>t, <2>1, <2>3, <3>2 DEF TypeOK, Domains
  <2> QED
    BY <2>1, <2>2, <2>3
<1>13. ASSUME NEW c \in Calls, ReadStops(c) PROVE QueueInv'
  <2>1. /\ UNCHANGED <<disk, queue, wanted, buffer, cancelled, before, steady>> /\ pc[c] = "paging"
        /\ pc' = [pc EXCEPT ![c] = "over"]
        /\ \E how \in {"aborted", "failed"} : outcome' = [outcome EXCEPT ![c] = how]
    BY <1>13 DEF ReadStops, Finish, To
  <2>2. /\ outcome' = [outcome EXCEPT ![c] = outcome'[c]]
        /\ outcome'[c] \in {"aborted", "failed"}
    BY <1>t, <2>1
  <2>3. Lines' /\ \A d \in Calls : Placed(d)'
    BY <2>1, <2>2, MovesOn
  <2>4. TypeOK'
    BY <1>t, <2>1 DEF TypeOK
  <2> QED
    BY <2>1, <2>3, <2>4 DEF Domains
<1> QED
  BY <1>2, <1>3, <1>4, <1>5, <1>6, <1>7, <1>9, <1>10, <1>11, <1>12, <1>13 DEF Next, Step, Finished

LEMMA QueueHolds == Spec => []QueueInv
  BY InitQueue, StepQueue, PTL DEF Spec

(* Types, and the queue of each path tells who holds and who awaits it.    *)
THEOREM FileTypes == Spec => []TypeOK
<1>1. QueueInv => TypeOK
  BY DEF QueueInv
<1> QED
  BY <1>1, QueueHolds, PTL

(* The lock of a path is held by the first in line, who is at work on it,  *)
(* and all others wait: no way out of a call keeps it.                     *)
THEOREM FileLocksAreReleased == Spec => []LocksAreReleased
<1>1. QueueInv => LocksAreReleased
  <2> SUFFICES ASSUME QueueInv, NEW f \in Files, queue[f] # <<>>
               PROVE  /\ pc[Head(queue[f])] \in {"locking", "held", "ready", "writing"}
                      /\ \A i \in 2 .. Len(queue[f]) : pc[queue[f][i]] = "locking"
    BY DEF LocksAreReleased
  <2>1. PICK q \in Seq(Calls) : q = queue[f]
    BY DEF QueueInv, TypeOK
  <2>2. LineOf(q, f) /\ Len(q) \in Nat \ {0} /\ Head(q) = q[1]
    BY <2>1 DEF QueueInv, Lines
  <2>3. 1 \in 1 .. Len(q) /\ \A i \in 2 .. Len(q) : i \in 1 .. Len(q) /\ i > 1
    BY <2>2
  <2> QED
    BY <2>1, <2>2, <2>3 DEF LineOf, Waiting, Holding
<1> QED
  BY <1>1, QueueHolds, PTL

-----------------------------------------------------------------------------
(***************************************************************************)
(* The writes.  What a call is going to write was decided by the content   *)
(* that is still there, or was until the call itself truncated the file.   *)
(***************************************************************************)

Decided == {"ready", "writing"}

Stands(c) == pc[c] \in Decided =>
  /\ wanted[c].kind = "write" => buffer[c] = Text!Applied(wanted[c].text)
  /\ wanted[c].kind = "edit" =>
       /\ Settled[File(c)] # Absent
       /\ buffer[c] = Text!Edited(Settled[File(c)], wanted[c].edits)
  /\ pc[c] = "writing" => disk[File(c)] = <<>> /\ buffer[c].ok

WritesStand == \A c \in Calls : Stands(c)

(* The same with what the contract allows in place of the algorithm.       *)
Allowed(c) == pc[c] \in Decided /\ wanted[c].kind = "edit" /\ buffer[c].ok =>
  buffer[c].text \in Contract!RawResults(Settled[File(c)], wanted[c].edits)

EditsAllowed == \A c \in Calls : Allowed(c)

Inv == QueueInv /\ WritesStand

Writer(f) == \E c \in Calls : pc[c] = "writing" /\ File(c) = f

LEMMA SettledIs ==
  /\ \A f \in Files : Writer(f) => Settled[f] = before[f]
  /\ \A f \in Files : ~Writer(f) => Settled[f] = disk[f]
  BY DEF Settled, Writer

(* Steps of calls that do not begin or end a write leave what is settled.  *)
LEMMA SettledStays ==
  ASSUME UNCHANGED <<disk, before>>,
         \A d \in Calls : /\ pc'[d] = "writing" <=> pc[d] = "writing"
                          /\ pc[d] = "writing" => File(d)' = File(d)
  PROVE  Settled' = Settled
<1>1. \A f \in Files : Writer(f)' <=> Writer(f)
  BY DEF Writer
<1>2. ASSUME NEW f \in Files PROVE Settled'[f] = Settled[f]
  <2>1. CASE Writer(f)
    BY <1>1, <2>1 DEF Settled, Writer
  <2>2. CASE ~Writer(f)
    BY <1>1, <2>2 DEF Settled, Writer
  <2> QED
    BY <2>1, <2>2
<1> QED
  BY <1>2 DEF Settled

(* A step of one call that holds the lock changes the settled content of   *)
(* no other file.                                                          *)
LEMMA OnlyOwnFile ==
  ASSUME QueueInv, NEW c \in Calls, pc[c] \in Holding, NEW p, To(c, p), UNCHANGED wanted,
         \A f \in Files : f # File(c) => disk'[f] = disk[f] /\ before'[f] = before[f]
  PROVE  /\ \A f \in Files : f # File(c) => Settled'[f] = Settled[f]
         /\ Writer(File(c)) <=> pc[c] = "writing"
         /\ Writer(File(c))' <=> p = "writing"
         /\ File(c)' = File(c) /\ File(c) \in Files
<1>1. /\ pc'[c] = p /\ \A d \in Calls : d # c => pc'[d] = pc[d]
      /\ \A d \in Calls : File(d)' = File(d)
  BY DEF To, QueueInv, TypeOK, File
<1>2. /\ File(c) \in Files
      /\ \A d \in Calls : pc[d] \in Holding /\ File(d) = File(c) => d = c
  BY HolderIsFirst
<1>3. /\ \A f \in Files : f # File(c) => (Writer(f)' <=> Writer(f))
      /\ Writer(File(c)) <=> pc[c] = "writing"
      /\ Writer(File(c))' <=> p = "writing"
  BY <1>1, <1>2 DEF Writer, Holding
<1>4. \A f \in Files : f # File(c) => Settled'[f] = Settled[f]
  BY <1>3 DEF Settled, Writer
<1> QED
  BY <1>1, <1>2, <1>3, <1>4

(* A call that starts to write leaves what is settled.                     *)
LEMMA BeginSettled ==
  ASSUME QueueInv, NEW c \in Calls, BeginWrite(c)
  PROVE  Settled' = Settled
<1>1. /\ pc[c] \in Holding /\ To(c, "writing") /\ UNCHANGED wanted
      /\ disk = [f \in Files |-> disk[f]] /\ before = [f \in Files |-> before[f]]
      /\ pc[c] = "ready"
  BY DEF BeginWrite, Holding, QueueInv, Domains
<1>2. \A f \in Files : f # File(c) => disk'[f] = disk[f] /\ before'[f] = before[f]
  BY <1>1 DEF BeginWrite
<1>3. /\ \A f \in Files : f # File(c) => Settled'[f] = Settled[f]
      /\ ~Writer(File(c)) /\ Writer(File(c))' /\ File(c) \in Files /\ File(c)' = File(c)
  BY <1>1, <1>2, OnlyOwnFile
<1>4. before'[File(c)] = disk[File(c)]
  BY <1>1, <1>3 DEF BeginWrite
<1>5. PICK g \in Files : g = File(c)
  BY <1>3
<1>6. ~Writer(g) /\ Writer(g)'
  <2>1. ~Writer(g)
    BY <1>3, <1>5
  <2>2. Writer(g)'
    BY <1>3, <1>5 DEF Writer
  <2> QED
    BY <2>1, <2>2
<1>7. Settled[g] = disk[g]
  BY <1>6, SettledIs
<1>8. Settled'[g] = before'[g]
  BY <1>6 DEF Settled, Writer
<1> QED
  BY <1>3, <1>4, <1>5, <1>7, <1>8 DEF Settled

(* The end of a write settles what is then on disk.                        *)
LEMMA EndSettled ==
  ASSUME QueueInv, NEW c \in Calls, NEW t, pc[c] = "writing", To(c, "over"), UNCHANGED wanted,
         disk' = [disk EXCEPT ![File(c)] = t], before' = [before EXCEPT ![File(c)] = t]
  PROVE  Settled' = [Settled EXCEPT ![File(c)] = t]
<1>1. /\ pc[c] \in Holding
      /\ disk = [f \in Files |-> disk[f]] /\ before = [f \in Files |-> before[f]]
  BY DEF Holding, QueueInv, Domains
<1>2. \A f \in Files : f # File(c) => disk'[f] = disk[f] /\ before'[f] = before[f]
  BY <1>1
<1>3. /\ \A f \in Files : f # File(c) => Settled'[f] = Settled[f]
      /\ ~Writer(File(c))' /\ File(c) \in Files /\ File(c)' = File(c)
  BY <1>1, <1>2, OnlyOwnFile
<1>4. PICK g \in Files : g = File(c)
  BY <1>3
<1>5. disk'[g] = t /\ before'[g] = t
  BY <1>1, <1>4
<1>6. Settled'[g] = t
  BY <1>5 DEF Settled
<1> QED
  BY <1>3, <1>4, <1>6 DEF Settled

(* The writes stand while nobody else touches what they were decided by.   *)
LEMMA StandUntouched ==
  ASSUME UNCHANGED <<disk, before, buffer>>,
         \A d \in Calls : pc'[d] \in Decided => pc'[d] = pc[d] /\ wanted'[d] = wanted[d],
         \A d \in Calls : pc[d] = "writing" => pc'[d] = "writing"
  PROVE  /\ Settled' = Settled
         /\ WritesStand => WritesStand'
         /\ EditsAllowed => EditsAllowed'
<1>1. Settled' = Settled
  BY SettledStays DEF Decided, File
<1>2. ASSUME NEW d \in Calls PROVE (Stands(d) => Stands(d)') /\ (Allowed(d) => Allowed(d)')
  <2>1. CASE pc'[d] \in Decided
    <3>1. pc'[d] = pc[d] /\ wanted'[d] = wanted[d] /\ File(d)' = File(d) /\ buffer'[d] = buffer[d]
      BY <2>1 DEF File
    <3>2. (Stands(d) => Stands(d)')
      BY <1>1, <3>1 DEF Stands
    <3>3. (Allowed(d) => Allowed(d)')
      BY <1>1, <3>1 DEF Allowed
    <3> QED
      BY <3>2, <3>3
  <2>2. CASE pc'[d] \notin Decided
    BY <2>2 DEF Stands, Allowed
  <2> QED
    BY <2>1, <2>2
<1> QED
  BY <1>1, <1>2 DEF WritesStand, EditsAllowed

(* What the holder of one file does leaves the writes of the other calls.  *)
LEMMA OthersStand ==
  ASSUME Inv, NEW c \in Calls, pc[c] \in Holding, NEW p, To(c, p), UNCHANGED wanted,
         \A f \in Files : f # File(c) => disk'[f] = disk[f] /\ before'[f] = before[f],
         \A d \in Calls : d # c => buffer'[d] = buffer[d]
  PROVE  \A d \in Calls : d # c => Stands(d)' /\ (Allowed(d) => Allowed(d)')
<1> SUFFICES ASSUME NEW d \in Calls, d # c PROVE Stands(d)' /\ (Allowed(d) => Allowed(d)')
  OBVIOUS
<1> USE DEF Inv
<1>1. pc'[d] = pc[d] /\ wanted'[d] = wanted[d] /\ File(d)' = File(d) /\ buffer'[d] = buffer[d]
  BY DEF To, QueueInv, TypeOK, File
<1>2. CASE pc[d] \in Decided
  <2>1. File(d) \in Files /\ File(d) # File(c)
    <3>1. pc[d] \in Holding
      BY <1>2 DEF Decided, Holding
    <3> QED
      BY <3>1, HolderIsFirst
  <2>2. Settled'[File(d)] = Settled[File(d)] /\ disk'[File(d)] = disk[File(d)]
    BY <2>1, OnlyOwnFile
  <2>3. Stands(d)
    BY DEF WritesStand
  <2>4. Stands(d)'
    BY <1>1, <2>2, <2>3 DEF Stands
  <2>5. Allowed(d) => Allowed(d)'
    BY <1>1, <2>2 DEF Allowed
  <2> QED
    BY <2>4, <2>5
<1>3. CASE pc[d] \notin Decided
  BY <1>1, <1>3 DEF Stands, Allowed
<1> QED
  BY <1>2, <1>3

(* What a call decides, it decides by what is settled.                     *)
LEMMA PrepareStands ==
  ASSUME Inv, NEW c \in Calls, Prepare(c)
  PROVE  /\ Settled' = Settled /\ WritesStand'
         /\ EditsFaithful /\ EditsAllowed => EditsAllowed'
<1> USE DEF Inv
<1>1. /\ pc[c] = "held" /\ pc[c] \in Holding /\ To(c, "ready") /\ UNCHANGED <<wanted, disk, before>>
      /\ pc'[c] = "ready" /\ \A d \in Calls : d # c => pc'[d] = pc[d]
      /\ buffer'[c] = Result(c) /\ \A d \in Calls : d # c => buffer'[d] = buffer[d]
      /\ wanted[c].kind = "edit" => disk[File(c)] # Absent
  BY DEF Prepare, To, Holding, QueueInv, TypeOK, Domains
<1>2. Settled' = Settled /\ File(c)' = File(c)
  BY <1>1, SettledStays DEF File
<1>3. File(c) \in Files /\ Settled[File(c)] = disk[File(c)]
  <2>1. File(c) \in Files /\ ~Writer(File(c))
    BY <1>1, HolderIsFirst DEF Writer, Holding
  <2> QED
    BY <2>1, SettledIs
<1>4. \A d \in Calls : d # c => Stands(d)' /\ (Allowed(d) => Allowed(d)')
  BY <1>1, OthersStand
<1>5. wanted[c].kind \in {"write", "edit"}
  BY <1>1 DEF QueueInv, Placed, Waiting, Holding
<1>6. Stands(c)'
  BY <1>1, <1>2, <1>3, <1>5 DEF Stands, Result
<1>7. EditsFaithful => Allowed(c)'
  <2> SUFFICES ASSUME EditsFaithful, wanted[c].kind = "edit", Result(c).ok
               PROVE  Result(c).text \in Contract!RawResults(disk[File(c)], wanted[c].edits)
    BY <1>1, <1>2, <1>3 DEF Allowed
  <2> QED
    BY <1>1 DEF EditsFaithful
<1> QED
  BY <1>2, <1>4, <1>6, <1>7 DEF WritesStand, EditsAllowed

LEMMA BeginStands ==
  ASSUME Inv, NEW c \in Calls, BeginWrite(c)
  PROVE  /\ Settled' = Settled /\ WritesStand'
         /\ EditsAllowed => EditsAllowed'
<1> USE DEF Inv
<1>1. Settled' = Settled
  BY BeginSettled
<1>2. /\ pc[c] = "ready" /\ pc[c] \in Holding /\ To(c, "writing") /\ UNCHANGED <<wanted, buffer>>
      /\ pc'[c] = "writing" /\ buffer[c].ok /\ File(c)' = File(c)
      /\ disk' = [disk EXCEPT ![File(c)] = <<>>]
      /\ disk = [f \in Files |-> disk[f]] /\ before = [f \in Files |-> before[f]]
  BY DEF BeginWrite, To, Holding, QueueInv, TypeOK, Domains, File
<1>3. \A f \in Files : f # File(c) => disk'[f] = disk[f] /\ before'[f] = before[f]
  BY <1>2 DEF BeginWrite
<1>4. disk'[File(c)] = <<>>
  BY <1>2, HolderIsFirst
<1>5. \A d \in Calls : d # c => Stands(d)' /\ (Allowed(d) => Allowed(d)')
  BY <1>2, <1>3, OthersStand
<1>6. Stands(c)'
  <2>1. Stands(c)
    BY DEF WritesStand
  <2> QED
    BY <1>1, <1>2, <1>4, <2>1 DEF Stands, Decided
<1>7. Allowed(c) => Allowed(c)'
  BY <1>1, <1>2 DEF Allowed, Decided
<1> QED
  BY <1>1, <1>5, <1>6, <1>7 DEF WritesStand, EditsAllowed

(* A write that ends, or fails with the file truncated.                    *)
LEMMA EndStands ==
  ASSUME Inv, NEW c \in Calls, EndWrite(c) \/ WriteFails(c)
  PROVE  /\ WritesStand' /\ (EditsAllowed => EditsAllowed')
         /\ EndWrite(c) => Settled' = [Settled EXCEPT ![File(c)] = buffer[c].text]
         /\ WriteFails(c) => Settled' = [Settled EXCEPT ![File(c)] = <<>>]
<1> USE DEF Inv
<1>1. /\ pc[c] = "writing" /\ pc[c] \in Holding /\ To(c, "over") /\ UNCHANGED <<wanted, buffer>>
      /\ pc'[c] = "over"
      /\ disk = [f \in Files |-> disk[f]] /\ before = [f \in Files |-> before[f]]
  BY DEF EndWrite, WriteFails, Finish, To, Holding, QueueInv, TypeOK, Domains
<1>2. \A f \in Files : f # File(c) => disk'[f] = disk[f] /\ before'[f] = before[f]
  BY <1>1 DEF EndWrite, WriteFails
<1>3. \A d \in Calls : d # c => Stands(d)' /\ (Allowed(d) => Allowed(d)')
  BY <1>1, <1>2, OthersStand
<1>4. Stands(c)' /\ Allowed(c)'
  BY <1>1 DEF Stands, Allowed, Decided
<1>5. EndWrite(c) => Settled' = [Settled EXCEPT ![File(c)] = buffer[c].text]
  BY <1>1, EndSettled DEF EndWrite
<1>6. WriteFails(c) => Settled' = [Settled EXCEPT ![File(c)] = <<>>]
  <2> SUFFICES ASSUME WriteFails(c) PROVE Settled' = [Settled EXCEPT ![File(c)] = <<>>]
    OBVIOUS
  <2>1. Stands(c) /\ File(c) \in Files
    BY <1>1, HolderIsFirst DEF WritesStand
  <2>2. disk[File(c)] = <<>>
    BY <1>1, <2>1 DEF Stands, Decided
  <2>3. disk' = [disk EXCEPT ![File(c)] = <<>>] /\ before' = [before EXCEPT ![File(c)] = <<>>]
    BY <1>1, <2>1, <2>2 DEF WriteFails
  <2> QED
    BY <1>1, <2>3, EndSettled
<1> QED
  BY <1>3, <1>4, <1>5, <1>6 DEF WritesStand, EditsAllowed

LEMMA StepStands ==
  Inv /\ [Next]_vars => WritesStand' /\ (EditsFaithful /\ EditsAllowed => EditsAllowed')
<1> SUFFICES ASSUME Inv, [Next]_vars
             PROVE  WritesStand' /\ (EditsFaithful /\ EditsAllowed => EditsAllowed')
  OBVIOUS
<1> USE DEF readVars
<1>t. /\ pc \in [Calls -> {"idle", "locking", "held", "ready", "writing", "paging", "over"}]
      /\ wanted \in [Calls -> Requests \cup {Idle}]
      /\ WritesStand
  BY DEF Inv, QueueInv, TypeOK
<1>1. CASE Cancel \/ UNCHANGED vars
  BY <1>1, <1>t, StandUntouched DEF Cancel, vars
<1>2. ASSUME NEW c \in Calls, Ask(c) PROVE WritesStand' /\ (EditsAllowed => EditsAllowed')
  <2>1. /\ UNCHANGED <<disk, buffer, before>> /\ pc[c] = "idle" /\ pc'[c] \in {"paging", "locking"}
        /\ \A d \in Calls : d # c => pc'[d] = pc[d] /\ wanted'[d] = wanted[d]
    BY <1>2, <1>t DEF Ask, To
  <2> QED
    BY <1>t, <2>1, StandUntouched DEF Decided
<1>3. ASSUME NEW c \in Calls,
             Enter(c) \/ Abort(c) \/ PrepareFails(c) \/ Refuse(c) \/ ReadOn(c) \/ ReadStops(c)
      PROVE  WritesStand' /\ (EditsAllowed => EditsAllowed')
  <2>1. UNCHANGED <<disk, buffer, before, wanted>>
    BY <1>3 DEF Enter, Abort, PrepareFails, Refuse, ReadOn, ReadStops, Finish
  <2>2. /\ pc[c] # "writing"
        /\ \E p \in {"held", "over", "paging"} : pc' = [pc EXCEPT ![c] = p]
    <3>1. CASE ReadOn(c)
      BY <3>1, <1>t DEF ReadOn
    <3>2. CASE ~ReadOn(c)
      BY <3>2, <1>3, <1>t DEF Enter, Abort, PrepareFails, Refuse, ReadStops, Finish, To
    <3> QED
      BY <3>1, <3>2
  <2>3. pc'[c] \notin Decided /\ \A d \in Calls : d # c => pc'[d] = pc[d]
    BY <1>t, <2>2 DEF Decided
  <2> QED
    BY <1>t, <2>1, <2>2, <2>3, StandUntouched
<1>4. ASSUME NEW c \in Calls, Prepare(c)
      PROVE  WritesStand' /\ (EditsFaithful /\ EditsAllowed => EditsAllowed')
  BY <1>4, PrepareStands
<1>5. ASSUME NEW c \in Calls, BeginWrite(c) PROVE WritesStand' /\ (EditsAllowed => EditsAllowed')
  BY <1>5, BeginStands
<1>6. ASSUME NEW c \in Calls, EndWrite(c) \/ WriteFails(c)
      PROVE  WritesStand' /\ (EditsAllowed => EditsAllowed')
  BY <1>6, EndStands
<1> QED
  BY <1>1, <1>2, <1>3, <1>4, <1>5, <1>6 DEF Next, Step, Finished

LEMMA InitStands == Init => WritesStand /\ EditsAllowed
  BY DEF Init, WritesStand, EditsAllowed, Stands, Allowed, Decided

LEMMA StandHolds == Spec => []Inv
<1>1. Init => Inv
  BY InitQueue, InitStands DEF Inv
<1>2. Inv /\ [Next]_vars => Inv'
  BY StepQueue, StepStands DEF Inv
<1> QED
  BY <1>1, <1>2, PTL DEF Spec

(* What a call is about to write, or is writing, is what it asked for, or  *)
(* its edit of the content as it is settled at this very moment: nothing   *)
(* that another call has done since it read the file is lost.              *)
THEOREM FileNoUpdateLost == Spec => []WritesStand
<1>1. Inv => WritesStand
  BY DEF Inv
<1> QED
  BY <1>1, StandHolds, PTL

-----------------------------------------------------------------------------
(***************************************************************************)
(* The contract.  A call is done when its write is complete; all that it   *)
(* does before is no step of the contract.                                 *)
(***************************************************************************)

CVars == <<Settled, wanted, outcome>>

LEMMA InitContract == Init => Contract!Init
<1> SUFFICES ASSUME Init PROVE Contract!Init
  OBVIOUS
<1>1. \A c \in Calls : pc[c] # "writing"
  BY DEF Init
<1>2. Settled = disk
  <2>1. \A f \in Files : ~Writer(f)
    BY <1>1 DEF Writer
  <2>2. \A f \in Files : Settled[f] = disk[f]
    BY <2>1, SettledIs
  <2>3. disk = [f \in Files |-> disk[f]]
    BY DEF Init
  <2> QED
    BY <2>2, <2>3 DEF Settled
<1> QED
  BY <1>2 DEF Init, Contract!Init, Contract!Idle, Idle

LEMMA StepContract ==
  Inv /\ EditsAllowed /\ [Next]_vars => [Contract!Next]_CVars
<1> SUFFICES ASSUME Inv, EditsAllowed, [Next]_vars PROVE [Contract!Next]_CVars
  OBVIOUS
<1> USE DEF readVars
<1>t. /\ pc \in [Calls -> {"idle", "locking", "held", "ready", "writing", "paging", "over"}]
      /\ outcome \in [Calls -> {"none", "done", "aborted", "failed"}]
      /\ wanted \in [Calls -> Requests \cup {Idle}]
      /\ \A c \in Calls : Placed(c) /\ Stands(c) /\ Allowed(c)
  BY DEF Inv, QueueInv, TypeOK, WritesStand, EditsAllowed
<1>a. \A c \in Calls : pc[c] \notin {"idle", "over"} => wanted[c] # Idle /\ outcome[c] = "none"
  BY <1>t DEF Placed
<1>1. CASE Cancel \/ UNCHANGED vars
  <2>1. Settled' = Settled
    BY <1>1, <1>t, StandUntouched DEF Cancel, vars
  <2> QED
    BY <1>1, <2>1 DEF Cancel, vars, CVars
<1>2. ASSUME NEW c \in Calls, Ask(c) PROVE Contract!Next
  <2>1. /\ UNCHANGED <<disk, buffer, before>> /\ pc[c] = "idle" /\ pc'[c] \in {"paging", "locking"}
        /\ \A d \in Calls : d # c => pc'[d] = pc[d] /\ wanted'[d] = wanted[d]
    BY <1>2, <1>t DEF Ask, To
  <2>2. Settled' = Settled
    BY <1>t, <2>1, StandUntouched DEF Decided
  <2>3. wanted[c] = Contract!Idle
    BY <1>t, <2>1 DEF Placed, Idle, Contract!Idle
  <2>4. Contract!Ask(c)
    BY <1>2, <2>2, <2>3 DEF Ask, Contract!Ask
  <2> QED
    BY <2>4 DEF Contract!Next
<1>3. ASSUME NEW c \in Calls, Enter(c) \/ Prepare(c) \/ BeginWrite(c) PROVE UNCHANGED CVars
  <2>1. UNCHANGED <<wanted, outcome>>
    BY <1>3 DEF Enter, Prepare, BeginWrite
  <2>2. CASE Enter(c)
    <3>1. /\ UNCHANGED <<disk, before>> /\ pc[c] # "writing" /\ pc'[c] # "writing"
          /\ \A d \in Calls : d # c => pc'[d] = pc[d]
      BY <1>t, <2>2 DEF Enter, To
    <3>2. Settled' = Settled
      BY <2>1, <3>1, SettledStays DEF File
    <3> QED
      BY <2>1, <3>2 DEF CVars
  <2>3. CASE Prepare(c)
    BY <2>1, <2>3, PrepareStands DEF CVars
  <2>4. CASE BeginWrite(c)
    BY <2>1, <2>4, BeginStands DEF CVars
  <2> QED
    BY <1>3, <2>2, <2>3, <2>4
<1>4. ASSUME NEW c \in Calls, NEW how \in {"done", "aborted", "failed"},
             UNCHANGED <<disk, before, wanted>>, pc[c] \notin {"idle", "over", "writing"},
             pc' = [pc EXCEPT ![c] = "over"], outcome' = [outcome EXCEPT ![c] = how],
             how = "done" => wanted[c].kind = "read"
      PROVE  Contract!Next
  <2>1. /\ pc'[c] = "over" /\ \A d \in Calls : d # c => pc'[d] = pc[d]
        /\ \A d \in Calls : File(d)' = File(d)
    BY <1>4, <1>t DEF File
  <2>2. Settled' = Settled
    BY <1>4, <2>1, SettledStays
  <2>3. wanted[c] # Contract!Idle /\ outcome[c] = "none"
    BY <1>4, <1>a DEF Idle, Contract!Idle
  <2>4. Contract!Nothing(c, how)
    BY <1>4, <2>2, <2>3 DEF Contract!Nothing, Contract!Settle
  <2> QED
    BY <2>4 DEF Contract!Next
<1>5. ASSUME NEW c \in Calls, Abort(c) \/ PrepareFails(c) \/ Refuse(c) \/ ReadStops(c)
      PROVE  Contract!Next
  <2>1. /\ UNCHANGED <<disk, before, wanted>> /\ pc[c] \notin {"idle", "over", "writing"}
        /\ pc' = [pc EXCEPT ![c] = "over"]
        /\ \E how \in {"aborted", "failed"} : outcome' = [outcome EXCEPT ![c] = how]
    BY <1>5 DEF Abort, PrepareFails, Refuse, ReadStops, Finish, To
  <2> QED
    BY <1>4, <2>1
<1>6. ASSUME NEW c \in Calls, ReadOn(c) PROVE [Contract!Next]_CVars
  <2>1. /\ UNCHANGED <<disk, queue, wanted, buffer, cancelled, before, steady>> /\ pc[c] = "paging"
        /\ \E over \in BOOLEAN :
             /\ pc' = [pc EXCEPT ![c] = IF over THEN "over" ELSE @]
             /\ outcome' = [outcome EXCEPT ![c] = IF over THEN "done" ELSE @]
    BY <1>6 DEF ReadOn
  <2>2. CASE pc' = [pc EXCEPT ![c] = @] /\ outcome' = [outcome EXCEPT ![c] = @]
    <3>1. pc' = pc /\ outcome' = outcome
      BY <1>t, <2>2
    <3>2. Settled' = Settled
      BY <2>1, <3>1, SettledStays DEF File
    <3> QED
      BY <2>1, <3>1, <3>2 DEF CVars
  <2>3. CASE pc' = [pc EXCEPT ![c] = "over"] /\ outcome' = [outcome EXCEPT ![c] = "done"]
    <3>1. wanted[c].kind = "read"
      BY <1>t, <2>1 DEF Placed
    <3> QED
      BY <1>4, <2>1, <2>3, <3>1
  <2> QED
    BY <2>1, <2>2, <2>3
<1>7. ASSUME NEW c \in Calls, EndWrite(c) PROVE Contract!Next
  <2>1. /\ pc[c] = "writing" /\ UNCHANGED wanted /\ outcome' = [outcome EXCEPT ![c] = "done"]
        /\ Settled' = [Settled EXCEPT ![File(c)] = buffer[c].text]
    BY <1>7, EndStands DEF EndWrite
  <2>2. Contract!Settle(c, "done")
    BY <1>a, <2>1 DEF Contract!Settle, Contract!Idle, Idle
  <2>3. Contract!Becomes(wanted[c].file, buffer[c].text)
    BY <2>1 DEF Contract!Becomes, File
  <2>4. CASE wanted[c].kind = "write"
    <3>1. buffer[c].text = wanted[c].text
      <4>1. buffer[c] = Text!Applied(wanted[c].text)
        BY <1>t, <2>1, <2>4 DEF Stands, Decided
      <4>2. Text!Applied(wanted[c].text).text = wanted[c].text
        BY DEF Text!Applied
      <4> QED
        BY <4>1, <4>2
    <3>2. Contract!Write(c)
      BY <2>2, <2>3, <2>4, <3>1 DEF Contract!Write
    <3> QED
      BY <3>2 DEF Contract!Next
  <2>5. CASE wanted[c].kind = "edit"
    <3>1. Settled[wanted[c].file] # Absent /\ buffer[c].ok
      BY <1>t, <2>1, <2>5 DEF Stands, Decided, File
    <3>2. buffer[c].text \in Contract!RawResults(Settled[wanted[c].file], wanted[c].edits)
      BY <1>t, <2>1, <2>5, <3>1 DEF Allowed, Decided, File
    <3>3. Contract!Edit(c)
      BY <2>2, <2>3, <2>5, <3>1, <3>2 DEF Contract!Edit
    <3> QED
      BY <3>3 DEF Contract!Next
  <2>6. wanted[c].kind \in {"write", "edit"}
    BY <1>t, <2>1 DEF Placed, Waiting, Holding
  <2> QED
    BY <2>4, <2>5, <2>6
<1>8. ASSUME NEW c \in Calls, WriteFails(c) PROVE Contract!Next
  <2>1. /\ pc[c] = "writing" /\ UNCHANGED wanted /\ outcome' = [outcome EXCEPT ![c] = "failed"]
        /\ Settled' = [Settled EXCEPT ![File(c)] = <<>>]
    BY <1>8, EndStands DEF WriteFails, Finish
  <2>2. Contract!Settle(c, "failed")
    BY <1>a, <2>1 DEF Contract!Settle, Contract!Idle, Idle
  <2>3. Contract!Becomes(wanted[c].file, <<>>)
    BY <2>1 DEF Contract!Becomes, File
  <2>4. wanted[c].kind \in {"write", "edit"}
    BY <1>t, <2>1 DEF Placed, Waiting, Holding
  <2>5. Contract!Damage(c)
    BY <2>2, <2>3, <2>4 DEF Contract!Damage
  <2> QED
    BY <2>5 DEF Contract!Next
<1> QED
  BY <1>1, <1>2, <1>3, <1>5, <1>6, <1>7, <1>8 DEF Next, Step, Finished, CVars

(* Each call takes effect at once or not at all, whoever else works on the *)
(* file, as far as the algorithm of an edit is true to the text it found:  *)
(* EditsFaithful says just this of single edits, and a run checks it.      *)
THEOREM FilesKeepContract == Spec /\ []EditsFaithful => KeepsFileContract
<1>1. Init => EditsAllowed /\ Contract!Init
  BY InitStands, InitContract
<1>2. Inv /\ EditsFaithful /\ EditsAllowed /\ [Next]_vars => EditsAllowed'
  BY StepStands
<1>3. Inv /\ EditsAllowed /\ [Next]_vars => [Contract!Next]_CVars
  BY StepContract
<1>4. Spec /\ []EditsFaithful => Contract!Init /\ [][Contract!Next]_CVars
  BY <1>1, <1>2, <1>3, StandHolds, PTL DEF Spec
<1> QED
  BY <1>4 DEF KeepsFileContract, Contract!Spec, CVars

=============================================================================
