------------------------ MODULE CodexCredentialsProofs ------------------------
(***************************************************************************)
(* Proofs about CodexCredentials, for any number of processes and          *)
(* credentials: no login is lost between the file and the processes that   *)
(* refresh it, and a token found fresh is still accepted a minute later.   *)
(***************************************************************************)
EXTENDS CodexCredentials, TLAPS

-----------------------------------------------------------------------------
(* Types. *)

(* The credentials there are. *)
Known == 1 .. issued

Places == {"off", "idle", "refreshing", "saving", "filling", "sending", "codeAsked",
           "waiting", "polling", "callback", "exchanging"}

CallType ==
  [pc : Places, goal : {"none", "request", "resolve", "login"},
   asked : Nat \cup {None}, answer : Nat \cup {None, Refused},
   late : BOOLEAN, slack : BOOLEAN, how : {"none", "kept", "stored", "refreshed"}]

ServerTyped ==
  /\ issued \in Ids
  /\ live \subseteq Known
  /\ age \in [Known -> 0 .. 2]

HeldTyped ==
  /\ file \in Known \cup {NoFile, Torn}
  /\ call \in [Processes -> CallType]
  /\ token \in [Processes -> Known \cup {EnvToken, None}]
  /\ lost \subseteq live

(* What is saved has been granted by the server, and a process that has    *)
(* nothing under way holds no answer.                                      *)
AnswersPlaced ==
  \A p \in Processes :
    /\ call[p].answer \in Known \cup {None, Refused}
    /\ call[p].pc \in {"off", "idle", "sending"} => call[p].answer = None
    /\ call[p].pc \in {"saving", "filling"} => call[p].answer \in Known

Typed == ServerTyped /\ HeldTyped /\ AnswersPlaced

(* The constants that are no credentials. *)
LEMMA Strangers ==
  /\ MaxIssued \in Nat \ {0}
  /\ \A x \in {NoFile, Torn, EnvToken, None, Refused} : x \notin Nat
  BY CredentialAssumption

LEMMA RestTyped ==
  \A s \in Places : /\ At(s) \in CallType
                    /\ At(s).pc = s /\ At(s).answer = None /\ ~At(s).slack
                    /\ At(s).how = "none"
  BY DEF At, CallType, Places

LEMMA SendingTyped ==
  \A h \in {"kept", "stored", "refreshed"} :
    /\ Sending(h) \in CallType
    /\ Sending(h).pc = "sending" /\ Sending(h).answer = None /\ ~Sending(h).slack
    /\ Sending(h).how = h
  BY DEF At, Sending, CallType, Places

LEMMA AskingTyped ==
  /\ \A n \in Nat, g \in {"request", "resolve"} :
       LET c == [At("refreshing") EXCEPT !.goal = g, !.asked = n]
       IN  c \in CallType /\ c.pc = "refreshing" /\ c.answer = None
  /\ \A s \in {"codeAsked", "callback"} :
       LET c == [At(s) EXCEPT !.goal = "login"]
       IN  c \in CallType /\ c.pc = s /\ c.answer = None
  BY DEF At, CallType, Places

LEMMA StoredIsNumber == Stored => file \in Nat
  BY Strangers DEF Stored, Ids

LEMMA InitTyped == Init => Typed
<1> SUFFICES ASSUME Init PROVE Typed
  OBVIOUS
<1>1. issued = 1 /\ Known = {1} /\ 1 \in Ids
  BY Strangers DEF Init, Known, Ids
<1>2. ServerTyped
  BY <1>1 DEF Init, ServerTyped
<1>3. HeldTyped
  BY <1>1, RestTyped DEF Init, HeldTyped, Places
<1>4. AnswersPlaced
  BY <1>1, RestTyped DEF Init, AnswersPlaced, Places
<1> QED
  BY <1>2, <1>3, <1>4 DEF Typed

(* The server's steps. *)
LEMMA IssueTyped ==
  ASSUME ServerTyped, NEW r, Issue(r)
  PROVE  /\ ServerTyped'
         /\ issued' \in Known' /\ Known \subseteq Known' /\ issued' \notin Known
         /\ live \ r \subseteq live' /\ issued' \in live' /\ live' \subseteq live \cup {issued'}
         /\ \A i \in Known : age'[i] = age[i]
<1>1. issued \in Nat /\ issued' = issued + 1 /\ issued' \in Ids
  BY Strangers DEF ServerTyped, Issue, Ids
<1>2. issued' \in Known' /\ Known \subseteq Known' /\ issued' \notin Known
  BY <1>1 DEF Known
<1>3. /\ live \ r \subseteq live' /\ issued' \in live' /\ live' \subseteq live \cup {issued'}
      /\ live' \subseteq Known'
  BY <1>2 DEF Issue, ServerTyped
<1>4. age' = [i \in Known' |-> IF i = issued' THEN 0 ELSE age[i]]
  BY DEF Issue, Known
<1>5. \A i \in Known' : i # issued' => i \in Known
  BY <1>1 DEF Known
<1>6. age' \in [Known' -> 0 .. 2] /\ \A i \in Known : age'[i] = age[i]
  BY <1>2, <1>4, <1>5 DEF ServerTyped
<1> QED
  BY <1>1, <1>2, <1>3, <1>6 DEF ServerTyped

(* One process goes on to c. *)
LEMMA BecomeTyped ==
  ASSUME Typed, NEW p \in Processes, NEW c \in CallType, Become(p, c),
         ServerTyped', Known \subseteq Known',
         file' \in Known' \cup {NoFile, Torn},
         token' \in [Processes -> Known' \cup {EnvToken, None}],
         lost' \subseteq live',
         c.answer \in Known' \cup {None, Refused},
         c.pc \in {"off", "idle", "sending"} => c.answer = None,
         c.pc \in {"saving", "filling"} => c.answer \in Known'
  PROVE  Typed'
<1>1. call' \in [Processes -> CallType]
  BY DEF Become, Typed, HeldTyped
<1>2. \A q \in Processes : call'[q] = IF q = p THEN c ELSE call[q]
  BY DEF Become, Typed, HeldTyped
<1>3. AnswersPlaced'
  BY <1>2 DEF Typed, AnswersPlaced
<1> QED
  BY <1>1, <1>3 DEF Typed, HeldTyped

(* A step of the server that leaves the credentials as they are.           *)
LEMMA SameServer ==
  ASSUME ServerTyped, UNCHANGED server
  PROVE  ServerTyped' /\ Known' = Known
  BY DEF ServerTyped, server, Known

LEMMA GoesTyped ==
  ASSUME Typed, NEW p \in Processes, NEW from, NEW to \in Places \ {"idle", "sending", "saving", "filling"},
         Goes(p, from, to)
  PROVE  Typed'
<1> DEFINE c == IF to = "off" THEN At("off") ELSE [call[p] EXCEPT !.pc = to]
<1>1. call[p] \in CallType /\ call[p].answer = None
  BY DEF Typed, HeldTyped, Goes, Waits
<1>2. c \in CallType /\ c.answer = None /\ c.pc = to
  BY <1>1, RestTyped DEF CallType, Places
<1>3. Become(p, c) /\ UNCHANGED <<server, file, token, lost, live>>
  BY DEF Goes, server
<1>4. ServerTyped' /\ Known' = Known
  BY <1>3, SameServer DEF Typed
<1> HIDE DEF c
<1> QED
  BY <1>2, <1>3, <1>4, BecomeTyped DEF Typed, HeldTyped

(* A process gives up what it has, its answer included.                    *)
LEMMA RestsTyped ==
  ASSUME Typed, NEW p \in Processes, NEW c \in CallType, c.pc \notin {"saving", "filling"}, c.answer = None, Become(p, c),
         UNCHANGED <<server, file>>,
         token' \in [Processes -> Known \cup {EnvToken, None}],
         lost' \subseteq live'
  PROVE  Typed'
<1>1. ServerTyped' /\ Known' = Known
  BY SameServer DEF Typed
<1> QED
  BY <1>1, BecomeTyped DEF Typed, HeldTyped

LEMMA AbandonTyped ==
  ASSUME Typed, NEW p \in Processes, Abandon(p)
  PROVE  ServerTyped' /\ Known \subseteq Known' /\ lost' \subseteq live'
<1>1. CASE UNCHANGED server
  BY <1>1, SameServer DEF Typed, Abandon, Drop
<1>2. CASE Issue({call[p].asked})
  BY <1>2, IssueTyped DEF Typed, Abandon, Drop
<1> QED
  BY <1>1, <1>2 DEF Abandon

LEMMA ProceedTyped ==
  ASSUME Typed, NEW p \in Processes, NEW saved \in BOOLEAN, Proceed(p, saved),
         call[p].pc \in {"saving", "filling"},
         UNCHANGED server,
         file' \in Known \cup {NoFile, Torn}, lost' \subseteq live'
  PROVE  Typed'
<1>1. ServerTyped' /\ Known' = Known
  BY SameServer DEF Typed
<1>2. call[p].answer \in Known
  BY DEF Typed, AnswersPlaced
<1>3. token' \in [Processes -> Known \cup {EnvToken, None}]
  BY <1>2 DEF Typed, HeldTyped, Proceed
<1>4. PICK c : Become(p, c) /\ c \in {At("off"), At("idle"), Sending("refreshed")}
  BY DEF Proceed
<1>5. c \in CallType /\ c.answer = None
  BY <1>4, RestTyped, SendingTyped DEF Places
<1>6. c.pc \in {"off", "idle", "sending"}
  BY <1>4, RestTyped, SendingTyped DEF Places
<1> QED
  BY <1>1, <1>3, <1>4, <1>5, <1>6, BecomeTyped

LEMMA StepTyped == Typed /\ [Next]_vars => Typed'
<1> SUFFICES ASSUME Typed, [Next]_vars PROVE Typed'
  OBVIOUS
<1> USE DEF Doing
<1>t. /\ ServerTyped
      /\ file \in Known \cup {NoFile, Torn}
      /\ call \in [Processes -> CallType]
      /\ token \in [Processes -> Known \cup {EnvToken, None}]
      /\ lost \subseteq live
  BY DEF Typed, HeldTyped
<1>1. ASSUME NEW n \in DOMAIN age, Age(n) PROVE Typed'
  <2>1. ServerTyped' /\ Known' = Known
    BY <1>1, <1>t DEF Age, ServerTyped, Known
  <2>2. call' = [p \in Processes |-> [call[p] EXCEPT !.slack = Doing(p, "sending")]]
    BY <1>1 DEF Age
  <2>3. \A p \in Processes : /\ call'[p] \in CallType
                             /\ call'[p].answer = call[p].answer /\ call'[p].pc = call[p].pc
    BY <1>t, <2>2 DEF CallType
  <2>4. call' \in [Processes -> CallType]
    BY <2>2, <2>3
  <2>5. AnswersPlaced'
    BY <2>1, <2>3 DEF Typed, AnswersPlaced
  <2> QED
    BY <1>1, <1>t, <2>1, <2>4, <2>5 DEF Typed, HeldTyped, Age
<1>2. ASSUME NEW p \in Processes, FromEnv(p) PROVE Typed'
  <2>1. token' \in [Processes -> Known \cup {EnvToken, None}]
    BY <1>2, <1>t, Strangers DEF FromEnv, Stored, Known, Ids, IsExpired
  <2>2. Become(p, At("idle")) /\ UNCHANGED <<server, file, lost, live>>
    BY <1>2 DEF FromEnv, server
  <2> QED
    BY <1>t, <2>1, <2>2, RestsTyped, RestTyped DEF Places
<1>3. ASSUME NEW p \in Processes, Resolve(p) PROVE Typed'
  <2> DEFINE c == IF Stored THEN [At("refreshing") EXCEPT !.goal = "resolve", !.asked = file]
                  ELSE [At("codeAsked") EXCEPT !.goal = "login"]
  <2>1. c \in CallType /\ c.pc \notin {"saving", "filling"} /\ c.answer = None
    BY StoredIsNumber, AskingTyped
  <2>2. Become(p, c) /\ UNCHANGED <<server, file, token, lost, live>>
    BY <1>3 DEF Resolve, server
  <2> HIDE DEF c
  <2> QED
    BY <1>t, <2>1, <2>2, RestsTyped
<1>4. ASSUME NEW p \in Processes, RefreshFirst(p) PROVE Typed'
  <2> DEFINE c == [At("refreshing") EXCEPT !.goal = "request", !.asked = file]
  <2>1. c \in CallType /\ c.pc \notin {"saving", "filling"} /\ c.answer = None
    BY <1>4, StoredIsNumber, AskingTyped DEF RefreshFirst
  <2>2. Become(p, c) /\ UNCHANGED <<server, file, token, lost, live>>
    BY <1>4 DEF RefreshFirst, server
  <2> HIDE DEF c
  <2> QED
    BY <1>t, <2>1, <2>2, RestsTyped
<1>5. ASSUME NEW p \in Processes, UseToken(p) PROVE Typed'
  <2>1. token' \in [Processes -> Known \cup {EnvToken, None}]
    BY <1>5, <1>t, Strangers DEF UseToken, Stored, Known, Ids
  <2>2. PICK h \in {"stored", "kept"} : Become(p, Sending(h))
    BY <1>5 DEF UseToken
  <2>3. UNCHANGED <<server, file, lost, live>>
    BY <1>5 DEF UseToken, server
  <2> QED
    BY <1>t, <2>1, <2>2, <2>3, RestsTyped, SendingTyped
<1>6. ASSUME NEW p \in Processes, RefreshFails(p) PROVE Typed'
  <2>1. PICK c : Become(p, c) /\ c \in {Sending("kept"), [At("codeAsked") EXCEPT !.goal = "login"]}
    BY <1>6 DEF RefreshFails
  <2>2. c \in CallType /\ c.pc \notin {"saving", "filling"} /\ c.answer = None
    BY <2>1, SendingTyped DEF At, CallType, Places
  <2>3. UNCHANGED <<server, file, token, lost, live>>
    BY <1>6 DEF RefreshFails, server
  <2> QED
    BY <1>t, <2>1, <2>2, <2>3, RestsTyped
<1>7. ASSUME NEW p \in Processes, Refreshed(p) PROVE Typed'
  <2> DEFINE c == [call[p] EXCEPT !.pc = "saving"]
  <2>1. call[p].answer \in Known
    BY <1>7, Strangers DEF Refreshed, Typed, AnswersPlaced, Ids
  <2>2. c \in CallType /\ c.pc = "saving" /\ c.answer = call[p].answer
    BY <1>t DEF CallType, Places
  <2>3. Become(p, c) /\ UNCHANGED <<server, file, token, lost, live>>
    BY <1>7 DEF Refreshed, server
  <2>4. ServerTyped' /\ Known' = Known
    BY <1>t, <2>3, SameServer
  <2> HIDE DEF c
  <2> QED
    BY <1>t, <2>1, <2>2, <2>3, <2>4, BecomeTyped
<1>8. ASSUME NEW p \in Processes, Truncate(p) PROVE Typed'
  <2> DEFINE c == [call[p] EXCEPT !.pc = "filling"]
  <2>1. call[p].answer \in Known
    BY <1>8, Strangers DEF Truncate, Typed, AnswersPlaced
  <2>2. c \in CallType /\ c.pc = "filling" /\ c.answer = call[p].answer
    BY <1>t DEF CallType, Places
  <2>3. Become(p, c) /\ UNCHANGED <<server, token>> /\ file' = Torn /\ lost' \subseteq live'
    BY <1>8 DEF Truncate, Drop
  <2>4. ServerTyped' /\ Known' = Known
    BY <1>t, <2>3, SameServer
  <2> HIDE DEF c
  <2> QED
    BY <1>t, <2>1, <2>2, <2>3, <2>4, BecomeTyped
<1>9. ASSUME NEW p \in Processes, Fill(p) PROVE Typed'
  BY <1>9, ProceedTyped DEF Fill, Written, Drop, Typed, AnswersPlaced
<1>10. ASSUME NEW p \in Processes, SaveFails(p) PROVE Typed'
  BY <1>10, <1>t, ProceedTyped DEF SaveFails, Drop
<1>11. ASSUME NEW p \in Processes, Send(p) PROVE Typed'
  <2>1. Become(p, At("idle")) /\ UNCHANGED <<server, file, token, lost, live>>
    BY <1>11 DEF Send, server
  <2> QED
    BY <1>t, <2>1, RestsTyped, RestTyped DEF Places
<1>12. ASSUME NEW p \in Processes,
              CodeShown(p) \/ Poll(p) \/ Authorized(p) \/ Pending(p) \/ Abort(p)
                \/ CallbackCode(p) \/ CallbackFails(p)
       PROVE  Typed'
  <2>1. PICK from \in Places, to \in {"waiting", "polling", "exchanging", "off"} : Goes(p, from, to)
    BY <1>12 DEF CodeShown, Poll, Authorized, Pending, Abort, CallbackCode, CallbackFails, Places
  <2> QED
    BY <2>1, GoesTyped DEF Places
<1>13. ASSUME NEW p \in Processes, LoginFails(p) PROVE Typed'
  <2>1. Become(p, At("off")) /\ UNCHANGED <<server, file, token, lost, live>>
    BY <1>13 DEF LoginFails, server
  <2> QED
    BY <1>t, <2>1, RestsTyped, RestTyped DEF Places
<1>14. ASSUME NEW p \in Processes, Rotate(p) PROVE Typed'
  <2>1. /\ ServerTyped' /\ issued' \in Known' /\ Known \subseteq Known'
    BY <1>14, <1>t, IssueTyped DEF Rotate
  <2>2. PICK a \in {issued', Refused} : Become(p, [call[p] EXCEPT !.answer = a])
    BY <1>14 DEF Rotate
  <2> DEFINE c == [call[p] EXCEPT !.answer = a]
  <2>a. call[p] \in CallType /\ call[p].pc = "refreshing"
    BY <1>14, <1>t DEF Rotate
  <2>b. a \in Known' \cup {Refused} /\ a \in Nat \cup {Refused}
    BY <2>1, <2>2 DEF Known
  <2>3. c \in CallType /\ c.pc = "refreshing" /\ c.answer = a
    BY <2>a, <2>b DEF CallType
  <2>4. /\ lost' \subseteq live' /\ file' \in Known' \cup {NoFile, Torn}
        /\ token' \in [Processes -> Known' \cup {EnvToken, None}]
    BY <1>14, <1>t, <2>1 DEF Rotate, Drop
  <2> HIDE DEF c
  <2> QED
    BY <2>1, <2>2, <2>3, <2>4, BecomeTyped DEF c
<1>15. ASSUME NEW p \in Processes, Refuse(p) PROVE Typed'
  <2> DEFINE c == [call[p] EXCEPT !.answer = Refused]
  <2>1. c \in CallType /\ c.answer = Refused /\ c.pc \in {"refreshing", "exchanging", "codeAsked", "polling"}
    BY <1>15, <1>t DEF CallType, Refuse
  <2>2. Become(p, c) /\ UNCHANGED <<server, file, token, lost, live>>
    BY <1>15 DEF Refuse, server
  <2>3. ServerTyped' /\ Known' = Known
    BY <1>t, <2>2, SameServer
  <2> HIDE DEF c
  <2> QED
    BY <1>t, <2>1, <2>2, <2>3, BecomeTyped
<1>16. ASSUME NEW p \in Processes, Exchange(p) PROVE Typed'
  <2>1. /\ ServerTyped' /\ issued' \in Known' /\ Known \subseteq Known' /\ live \subseteq live'
    BY <1>16, <1>t, IssueTyped DEF Exchange
  <2> DEFINE c == [call[p] EXCEPT !.answer = issued']
  <2>2. c \in CallType /\ c.pc = "exchanging" /\ c.answer = issued'
    BY <1>16, <1>t, <2>1 DEF CallType, Exchange, Known
  <2>3. Become(p, c)
    BY <1>16 DEF Exchange
  <2>4. /\ lost' \subseteq live' /\ file' \in Known' \cup {NoFile, Torn}
        /\ token' \in [Processes -> Known' \cup {EnvToken, None}]
    BY <1>16, <1>t, <2>1 DEF Exchange
  <2> HIDE DEF c
  <2> QED
    BY <2>1, <2>2, <2>3, <2>4, BecomeTyped
<1>17. ASSUME NEW p \in Processes, Cancel(p) \/ Crash(p) PROVE Typed'
  <2>1. ServerTyped' /\ Known \subseteq Known' /\ lost' \subseteq live'
    BY <1>17, AbandonTyped DEF Cancel, Crash
  <2>2. PICK s \in {"off", "idle"} : Become(p, At(s))
    BY <1>17 DEF Cancel, Crash
  <2>3. file' \in Known' \cup {NoFile, Torn}
    BY <1>17, <1>t, <2>1 DEF Cancel, Crash
  <2>4. token' \in [Processes -> Known' \cup {EnvToken, None}]
    BY <1>17, <1>t, <2>1 DEF Cancel, Crash
  <2>5. At(s) \in CallType /\ At(s).pc = s /\ At(s).answer = None
    BY RestTyped DEF Places
  <2> QED
    BY <2>1, <2>2, <2>3, <2>4, <2>5, BecomeTyped
<1>18. ASSUME NEW p \in Processes, TimePasses(p) PROVE Typed'
  <2> DEFINE c == [call[p] EXCEPT !.late = TRUE]
  <2>1. c \in CallType /\ c.answer = call[p].answer /\ c.pc \in {"waiting", "polling"}
    BY <1>18, <1>t DEF CallType, TimePasses
  <2>2. Become(p, c) /\ UNCHANGED <<server, file, token, lost, live>>
    BY <1>18 DEF TimePasses, server
  <2>3. ServerTyped' /\ Known' = Known
    BY <1>t, <2>2, SameServer
  <2>4. c.answer \in Known \cup {None, Refused}
    BY <2>1 DEF Typed, AnswersPlaced
  <2> HIDE DEF c
  <2> QED
    BY <1>t, <2>1, <2>2, <2>3, <2>4, BecomeTyped
<1>19. ASSUME NEW p \in Processes, BrowserLogin(p) PROVE Typed'
  <2> DEFINE c == [At("callback") EXCEPT !.goal = "login"]
  <2>1. c \in CallType /\ c.pc \notin {"saving", "filling"} /\ c.answer = None
    BY DEF At, CallType, Places
  <2>2. Become(p, c) /\ UNCHANGED <<server, file, token, lost, live>>
    BY <1>19 DEF BrowserLogin, server
  <2> HIDE DEF c
  <2> QED
    BY <1>t, <2>1, <2>2, RestsTyped
<1>20. CASE UNCHANGED vars
  BY <1>20 DEF vars, Typed, ServerTyped, HeldTyped, AnswersPlaced, Known
<1> QED
  BY <1>1, <1>2, <1>3, <1>4, <1>5, <1>6, <1>7, <1>8, <1>9, <1>10, <1>11, <1>12, <1>13, <1>14,
     <1>15, <1>16, <1>17, <1>18, <1>19, <1>20 DEF Next, Works

(* Type correctness: credentials are only ever issued ones, and what is    *)
(* saved is an answer of the server.                                       *)
THEOREM CredentialTypes == Spec => []Typed
  BY InitTyped, StepTyped, PTL DEF Spec

-----------------------------------------------------------------------------
(***************************************************************************)
(* What one process's step hands on.  A refresh token that leaves the file *)
(* or the hands of the process goes to the other of the two, or is used or *)
(* dropped; the token of a request was taken from the file, and was fresh. *)
(***************************************************************************)

Handover(p, c) ==
  /\ Become(p, c)
  /\ \A n \in live' \ lost' : n \in live \ lost \/ n \in {c.answer, file'}
  /\ file \in live' \ lost' => file \in {file', c.answer}
  /\ call[p].answer \in live' \ lost' => call[p].answer \in {c.answer, file'}
  /\ \A q \in Processes : q # p => token'[q] = token[q]
  /\ \A i \in Known : i \in Known' /\ age'[i] = age[i]
  /\ (c.pc = "sending" /\ c.how = "stored") =>
       ~c.slack /\ token'[p] \in Known /\ age[token'[p]] = 0

(* No answer is a refresh token that anybody could lose.                   *)
LEMMA NoTokens == Typed => live \subseteq Nat /\ None \notin live /\ Refused \notin live
<1> SUFFICES ASSUME Typed PROVE live \subseteq Nat /\ None \notin live /\ Refused \notin live
  OBVIOUS
<1>1. Known \subseteq Nat
  BY DEF Known
<1>2. live \subseteq Nat
  BY <1>1 DEF Typed, ServerTyped
<1>3. None \notin Nat /\ Refused \notin Nat
  BY Strangers
<1> QED
  BY <1>2, <1>3

LEMMA Waiting ==
  ASSUME Typed, NEW p \in Processes, NEW c,
         Become(p, c), UNCHANGED <<server, file, lost>>,
         \/ c.answer = call[p].answer
         \/ call[p].answer \in {None, Refused},
         \A q \in Processes : q # p => token'[q] = token[q],
         c.pc # "sending" \/ c.how # "stored"
  PROVE  Handover(p, c)
  BY NoTokens DEF Handover, server, Known

LEMMA GoesHandsOver ==
  ASSUME Typed, NEW p \in Processes, NEW from, NEW to \in Places \ {"sending"}, Goes(p, from, to)
  PROVE  \E c : Handover(p, c)
<1> DEFINE c == IF to = "off" THEN At("off") ELSE [call[p] EXCEPT !.pc = to]
<1>1. call[p] \in CallType /\ call[p].answer = None
  BY DEF Typed, HeldTyped, Goes, Waits
<1>2. c.pc = to
  BY <1>1, RestTyped DEF CallType, Places
<1>3. Become(p, c) /\ UNCHANGED <<server, file, token, lost>>
  BY DEF Goes
<1> HIDE DEF c
<1> QED
  BY <1>1, <1>2, <1>3, Waiting

LEMMA ProceedHandsOver ==
  ASSUME Typed, NEW p \in Processes, NEW saved \in BOOLEAN, Proceed(p, saved),
         UNCHANGED server, lost' \in SUBSET Nat,
         call[p].answer \in live' \ lost' => call[p].answer = file',
         file \in live' \ lost' => file = file',
         lost \cap live' \subseteq lost'
  PROVE  \E c : Handover(p, c)
<1>1. PICK c : Become(p, c) /\ c \in {At("off"), At("idle"), Sending("refreshed")}
  BY DEF Proceed
<1>2. c.pc # "sending" \/ c.how # "stored"
  BY <1>1, RestTyped, SendingTyped DEF Places
<1>3. \A q \in Processes : q # p => token'[q] = token[q]
  BY DEF Proceed, Typed, HeldTyped
<1>4. \A i \in Known : i \in Known' /\ age'[i] = age[i]
  BY DEF server, Known
<1> QED
  BY <1>1, <1>2, <1>3, <1>4 DEF Handover, server

LEMMA AbandonHandsOver ==
  ASSUME Typed, NEW p \in Processes, NEW s \in {"off", "idle"}, Become(p, At(s)), Abandon(p),
         \A q \in Processes : q # p => token'[q] = token[q],
         UNCHANGED file
  PROVE  \E c : Handover(p, c)
<1>1. At(s).pc # "sending"
  BY RestTyped DEF Places
<1>2. CASE UNCHANGED server /\ Drop({call[p].answer})
  <2>1. \A i \in Known : i \in Known' /\ age'[i] = age[i]
    BY <1>2 DEF server, Known
  <2> QED
    BY <1>1, <1>2, <2>1 DEF Handover, server, Drop
<1>3. CASE Waits(p) /\ Issue({call[p].asked}) /\ Drop({issued'})
  <2>1. /\ \A i \in Known : i \in Known' /\ age'[i] = age[i]
        /\ live' \subseteq live \cup {issued'}
    BY <1>3, IssueTyped DEF Typed
  <2>2. lost' = (lost \cup {issued'}) \cap live'
    BY <1>3 DEF Drop
  <2>3. call[p].answer = None /\ None \notin live'
    <3>1. call[p].answer = None
      BY <1>3 DEF Waits
    <3>2. issued' \in Nat
      BY <1>3, IssueTyped DEF Typed, Known
    <3>3. None \notin Nat /\ None \notin live
      BY Strangers, NoTokens
    <3> QED
      BY <2>1, <3>1, <3>2, <3>3
  <2> QED
    BY <1>1, <2>1, <2>2, <2>3 DEF Handover
<1> QED
  BY <1>2, <1>3 DEF Abandon

LEMMA StepsHandOver ==
  ASSUME Typed, NEW p \in Processes,
         \/ FromEnv(p) \/ Resolve(p) \/ RefreshFirst(p) \/ UseToken(p) \/ Works(p)
         \/ Rotate(p) \/ Refuse(p) \/ Exchange(p) \/ Cancel(p)
         \/ TimePasses(p) \/ Abort(p) \/ BrowserLogin(p) \/ CallbackCode(p) \/ CallbackFails(p)
         \/ Crash(p)
  PROVE  \E c : Handover(p, c)
<1> USE DEF Doing
<1>t. /\ ServerTyped
      /\ file \in Known \cup {NoFile, Torn}
      /\ call[p] \in CallType
      /\ call[p].pc \in {"off", "idle", "sending"} => call[p].answer = None
      /\ token \in [Processes -> Known \cup {EnvToken, None}]
      /\ lost \subseteq live /\ live \subseteq Nat
  BY NoTokens DEF Typed, HeldTyped, AnswersPlaced
<1>2. CASE FromEnv(p)
  <2>1. \A q \in Processes : q # p => token'[q] = token[q]
    BY <1>2, <1>t DEF FromEnv
  <2> QED
    BY <1>2, <1>t, <2>1, Waiting, RestTyped DEF FromEnv, Places
<1>3. CASE Resolve(p)
  <2> DEFINE c == IF Stored THEN [At("refreshing") EXCEPT !.goal = "resolve", !.asked = file]
                  ELSE [At("codeAsked") EXCEPT !.goal = "login"]
  <2>1. c.pc # "sending"
    BY StoredIsNumber, AskingTyped
  <2>2. Become(p, c) /\ UNCHANGED <<server, file, token, lost>> /\ call[p].answer = None
    BY <1>3, <1>t DEF Resolve
  <2> HIDE DEF c
  <2> QED
    BY <2>1, <2>2, Waiting
<1>4. CASE RefreshFirst(p)
  <2> DEFINE c == [At("refreshing") EXCEPT !.goal = "request", !.asked = file]
  <2>1. c.pc # "sending"
    BY <1>4, StoredIsNumber, AskingTyped DEF RefreshFirst
  <2>2. Become(p, c) /\ UNCHANGED <<server, file, token, lost>> /\ call[p].answer = None
    BY <1>4, <1>t DEF RefreshFirst
  <2> HIDE DEF c
  <2> QED
    BY <2>1, <2>2, Waiting
<1>5. CASE UseToken(p)
  <2> DEFINE h == IF Stored THEN "stored" ELSE "kept"
  <2>1. Become(p, Sending(h)) /\ UNCHANGED <<server, file, lost>> /\ call[p].answer = None
    BY <1>5, <1>t DEF UseToken
  <2>2. Sending(h).how = h /\ ~Sending(h).slack
    BY SendingTyped
  <2>3. \A q \in Processes : q # p => token'[q] = token[q]
    BY <1>5, <1>t DEF UseToken
  <2>4. Stored => token'[p] \in Known /\ age[token'[p]] = 0
    <3>1. Stored => file \in Known
      BY <1>t, StoredIsNumber, Strangers
    <3>2. Stored => token'[p] = file /\ ~(age[file] >= 1)
      BY <1>5, <1>t DEF UseToken, IsExpired
    <3>3. \A n \in Known : age[n] \in 0 .. 2
      BY <1>t DEF ServerTyped
    <3> QED
      BY <3>1, <3>2, <3>3
  <2>5. \A i \in Known : i \in Known' /\ age'[i] = age[i]
    BY <2>1 DEF server, Known
  <2>6. None \notin live'
    BY <2>1, NoTokens DEF server
  <2>7. h = "stored" => Stored
    OBVIOUS
  <2> HIDE DEF h
  <2> QED
    BY <2>1, <2>2, <2>3, <2>4, <2>5, <2>6, <2>7 DEF Handover, server
<1>6. CASE RefreshFails(p)
  <2>1. PICK c : Become(p, c) /\ c \in {Sending("kept"), [At("codeAsked") EXCEPT !.goal = "login"]}
    BY <1>6 DEF RefreshFails
  <2>2. c.pc # "sending" \/ c.how # "stored"
    BY <2>1, SendingTyped, AskingTyped
  <2>3. UNCHANGED <<server, file, token, lost>> /\ call[p].answer = Refused
    BY <1>6 DEF RefreshFails
  <2> QED
    BY <2>1, <2>2, <2>3, Waiting
<1>7. CASE Refreshed(p)
  <2> DEFINE c == [call[p] EXCEPT !.pc = "saving"]
  <2>1. c.pc # "sending" /\ c.answer = call[p].answer
    BY <1>t DEF CallType
  <2>2. Become(p, c) /\ UNCHANGED <<server, file, token, lost>>
    BY <1>7 DEF Refreshed
  <2> HIDE DEF c
  <2> QED
    BY <2>1, <2>2, Waiting
<1>8. CASE Truncate(p)
  <2> DEFINE c == [call[p] EXCEPT !.pc = "filling"]
  <2>1. c.pc # "sending" /\ c.answer = call[p].answer
    BY <1>t DEF CallType
  <2>2. Become(p, c) /\ UNCHANGED <<server, token>> /\ lost' = (lost \cup {file}) \cap live'
    BY <1>8 DEF Truncate, Drop
  <2>3. \A i \in Known : i \in Known' /\ age'[i] = age[i]
    BY <2>2 DEF server, Known
  <2> HIDE DEF c
  <2> QED
    BY <2>1, <2>2, <2>3 DEF Handover, server
<1>9. CASE Fill(p)
  <2>1. /\ Proceed(p, TRUE) /\ UNCHANGED server /\ file' = call[p].answer
        /\ lost' = (lost \cup ({file} \ {call[p].answer})) \cap live'
    BY <1>9 DEF Fill, Written, Drop
  <2> QED
    BY <1>t, <2>1, ProceedHandsOver DEF server
<1>10. CASE SaveFails(p)
  <2>1. /\ Proceed(p, FALSE) /\ UNCHANGED <<server, file>>
        /\ lost' = (lost \cup {call[p].answer}) \cap live'
    BY <1>10 DEF SaveFails, Drop
  <2> QED
    BY <1>t, <2>1, ProceedHandsOver DEF server
<1>11. CASE Send(p)
  BY <1>11, <1>t, Waiting, RestTyped DEF Send, Places
<1>12. CASE \/ CodeShown(p) \/ Poll(p) \/ Authorized(p) \/ Pending(p) \/ Abort(p)
            \/ CallbackCode(p) \/ CallbackFails(p)
  <2>1. PICK from \in Places, to \in {"waiting", "polling", "exchanging", "off"} : Goes(p, from, to)
    BY <1>12 DEF CodeShown, Poll, Authorized, Pending, Abort, CallbackCode, CallbackFails, Places
  <2> QED
    BY <2>1, GoesHandsOver DEF Places
<1>13. CASE LoginFails(p)
  BY <1>13, Waiting, RestTyped DEF LoginFails, Places
<1>14. CASE Rotate(p)
  <2>1. /\ \A i \in Known : i \in Known' /\ age'[i] = age[i]
        /\ live' \subseteq live \cup {issued'} /\ issued' \in Nat
    BY <1>14, <1>t, IssueTyped DEF Rotate, Known
  <2>2. PICK a : /\ Become(p, [call[p] EXCEPT !.answer = a])
                 /\ \/ a = issued' /\ lost' = lost \cap live'
                    \/ a = Refused /\ lost' = (lost \cup {issued'}) \cap live'
    BY <1>14 DEF Rotate, Drop
  <2> DEFINE c == [call[p] EXCEPT !.answer = a]
  <2>3. c.answer = a /\ c.pc = "refreshing"
    BY <1>14, <1>t DEF CallType, Rotate
  <2>4. call[p].answer = None /\ None \notin live'
    BY <1>14, <2>1, NoTokens, Strangers DEF Rotate, Waits
  <2>5. UNCHANGED <<file, token>>
    BY <1>14 DEF Rotate
  <2> HIDE DEF c
  <2>6. Become(p, c)
    BY <2>2 DEF c
  <2> QED
    BY <2>1, <2>2, <2>3, <2>4, <2>5, <2>6 DEF Handover
<1>15. CASE Refuse(p)
  <2> DEFINE c == [call[p] EXCEPT !.answer = Refused]
  <2>1. c.pc # "sending" /\ call[p].answer = None
    BY <1>15, <1>t DEF CallType, Refuse, Waits
  <2>2. Become(p, c) /\ UNCHANGED <<server, file, token, lost>>
    BY <1>15 DEF Refuse
  <2> HIDE DEF c
  <2> QED
    BY <2>1, <2>2, Waiting
<1>16. CASE Exchange(p)
  <2>1. /\ \A i \in Known : i \in Known' /\ age'[i] = age[i]
        /\ live' \subseteq live \cup {issued'} /\ issued' \in Nat
    BY <1>16, <1>t, IssueTyped DEF Exchange, Known
  <2> DEFINE c == [call[p] EXCEPT !.answer = issued']
  <2>2. c.answer = issued' /\ c.pc = "exchanging"
    BY <1>16, <1>t DEF CallType, Exchange
  <2>3. call[p].answer = None /\ None \notin live'
    BY <1>16, <2>1, NoTokens, Strangers DEF Exchange, Waits
  <2>4. Become(p, c) /\ UNCHANGED <<file, token, lost>>
    BY <1>16 DEF Exchange
  <2> HIDE DEF c
  <2> QED
    BY <2>1, <2>2, <2>3, <2>4 DEF Handover
<1>17. CASE Cancel(p)
  BY <1>17, AbandonHandsOver DEF Cancel
<1>18. CASE Crash(p)
  <2>1. \A q \in Processes : q # p => token'[q] = token[q]
    BY <1>18, <1>t DEF Crash
  <2> QED
    BY <1>18, <2>1, AbandonHandsOver DEF Crash
<1>19. CASE TimePasses(p)
  <2> DEFINE c == [call[p] EXCEPT !.late = TRUE]
  <2>1. c.pc # "sending" /\ c.answer = call[p].answer
    BY <1>19, <1>t DEF CallType, TimePasses
  <2>2. Become(p, c) /\ UNCHANGED <<server, file, token, lost>>
    BY <1>19 DEF TimePasses
  <2> HIDE DEF c
  <2> QED
    BY <2>1, <2>2, Waiting
<1>20. CASE BrowserLogin(p)
  <2> DEFINE c == [At("callback") EXCEPT !.goal = "login"]
  <2>1. c.pc # "sending"
    BY AskingTyped
  <2>2. Become(p, c) /\ UNCHANGED <<server, file, token, lost>> /\ call[p].answer = None
    BY <1>20, <1>t DEF BrowserLogin
  <2> HIDE DEF c
  <2> QED
    BY <2>1, <2>2, Waiting
<1> QED
  BY <1>2, <1>3, <1>4, <1>5, <1>6, <1>7, <1>8, <1>9, <1>10, <1>11, <1>12, <1>13, <1>14,
     <1>15, <1>16, <1>17, <1>18, <1>19, <1>20 DEF Works

-----------------------------------------------------------------------------
(* The login. *)

LEMMA StepKeepsLogin == Typed /\ LoginKept /\ [Next]_vars => LoginKept'
<1> SUFFICES ASSUME Typed, LoginKept, [Next]_vars PROVE LoginKept'
  OBVIOUS
<1>t. call \in [Processes -> CallType]
  BY DEF Typed, HeldTyped
<1>1. ASSUME NEW n \in DOMAIN age, Age(n) PROVE LoginKept'
  <2>1. UNCHANGED <<live, file, lost>>
    BY <1>1 DEF Age
  <2>2. \A p \in Processes : call'[p].answer = call[p].answer
    BY <1>1, <1>t DEF Age, CallType
  <2> QED
    BY <2>1, <2>2 DEF LoginKept
<1>2. ASSUME NEW p \in Processes, NEW c, Handover(p, c) PROVE LoginKept'
  <2>1. \A q \in Processes : call'[q] = IF q = p THEN c ELSE call[q]
    BY <1>2, <1>t DEF Handover, Become
  <2>2. SUFFICES ASSUME NEW n \in live' \ lost'
                 PROVE  n = file' \/ \E q \in Processes : n = call'[q].answer
    BY DEF LoginKept
  <2>3. CASE n \in {c.answer, file'}
    BY <2>1, <2>3
  <2>4. CASE n = file \/ n = call[p].answer
    BY <1>2, <2>1, <2>2, <2>4 DEF Handover
  <2>5. CASE \E q \in Processes \ {p} : n = call[q].answer
    BY <2>1, <2>5
  <2>6. n \in live \ lost \/ n \in {c.answer, file'}
    BY <1>2, <2>2 DEF Handover
  <2> QED
    BY <2>3, <2>4, <2>5, <2>6 DEF LoginKept
<1>3. CASE UNCHANGED vars
  BY <1>3 DEF vars, LoginKept
<1> QED
  BY <1>1, <1>2, <1>3, StepsHandOver DEF Next

(* However the refreshes and saves of several processes meet on the file   *)
(* without a lock, a refresh token the server would still take is in it or *)
(* with a process about to save it, unless a fault has dropped it.         *)
THEOREM CredentialsLoginKept == Spec => []LoginKept
<1>1. Init => LoginKept
  BY DEF Init, LoginKept
<1> QED
  BY <1>1, CredentialTypes, StepKeepsLogin, PTL DEF Spec

-----------------------------------------------------------------------------
(* The token of a request. *)

(* It was fresh when it was looked at, and at most a minute has passed.    *)
FoundFresh ==
  \A p \in Processes :
    call[p].pc = "sending" /\ call[p].how = "stored" =>
      /\ token[p] \in Known
      /\ age[token[p]] <= IF call[p].slack THEN 1 ELSE 0

LEMMA StepFresh == Typed /\ FoundFresh /\ [Next]_vars => FoundFresh'
<1> SUFFICES ASSUME Typed, FoundFresh, [Next]_vars PROVE FoundFresh'
  OBVIOUS
<1>t. /\ call \in [Processes -> CallType]
      /\ age \in [Known -> 0 .. 2]
  BY DEF Typed, HeldTyped, ServerTyped
<1>1. ASSUME NEW n \in DOMAIN age, Age(n) PROVE FoundFresh'
  <2>1. UNCHANGED token /\ Known' = Known
    BY <1>1 DEF Age, Known
  <2>2. SUFFICES ASSUME NEW p \in Processes, call'[p].pc = "sending", call'[p].how = "stored"
                 PROVE  token[p] \in Known /\ age'[token[p]] <= IF call'[p].slack THEN 1 ELSE 0
    BY <2>1 DEF FoundFresh
  <2>3. /\ call'[p].pc = call[p].pc /\ call'[p].how = call[p].how
        /\ call'[p].slack = (call[p].pc = "sending")
    BY <1>1, <1>t DEF Age, CallType, Doing
  <2>4. call[p].pc = "sending" /\ call[p].how = "stored" /\ ~call[p].slack /\ call'[p].slack
    BY <1>1, <2>2, <2>3 DEF Age, Doing
  <2>5. token[p] \in Known /\ age[token[p]] <= 0
    BY <2>4 DEF FoundFresh
  <2>6. \A i \in Known : age'[i] <= age[i] + 1
    BY <1>1, <1>t DEF Age
  <2>7. age[token[p]] \in 0 .. 2 /\ age'[token[p]] <= age[token[p]] + 1 /\ age'[token[p]] \in Nat
    BY <1>1, <1>t, <2>5, <2>6 DEF Age
  <2> QED
    BY <2>4, <2>5, <2>7
<1>2. ASSUME NEW p \in Processes, NEW c, Handover(p, c) PROVE FoundFresh'
  <2>1. \A q \in Processes : call'[q] = IF q = p THEN c ELSE call[q]
    BY <1>2, <1>t DEF Handover, Become
  <2>2. SUFFICES ASSUME NEW q \in Processes, call'[q].pc = "sending", call'[q].how = "stored"
                 PROVE  token'[q] \in Known' /\ age'[token'[q]] <= IF call'[q].slack THEN 1 ELSE 0
    BY DEF FoundFresh
  <2>3. CASE q = p
    BY <1>2, <2>1, <2>2, <2>3 DEF Handover
  <2>4. CASE q # p
    BY <1>2, <2>1, <2>2, <2>4 DEF Handover, FoundFresh
  <2> QED
    BY <2>3, <2>4
<1>3. CASE UNCHANGED vars
  BY <1>3 DEF vars, FoundFresh, Known
<1> QED
  BY <1>1, <1>2, <1>3, StepsHandOver DEF Next

(* A token that was found fresh in the file is still accepted when the     *)
(* request is sent, up to a minute after the look at it.                   *)
THEOREM CredentialsFreshTokenAccepted == Spec => []FreshTokenAccepted
<1>1. Init => FoundFresh
  BY RestTyped DEF Init, FoundFresh, Places
<1>2. Typed /\ FoundFresh => FreshTokenAccepted
  BY DEF Typed, ServerTyped, FoundFresh, FreshTokenAccepted, Doing
<1> QED
  BY <1>1, <1>2, CredentialTypes, StepFresh, PTL DEF Spec
=============================================================================
