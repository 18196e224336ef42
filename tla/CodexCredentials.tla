-------------------------- MODULE CodexCredentials --------------------------
(***************************************************************************)
(* How the processes of one user log in to OpenAI Codex and keep their     *)
(* token fresh (ai/auth/openai_codex.rs, and the token handling of         *)
(* ai/providers/openai_codex.rs).                                          *)
(*                                                                         *)
(* A credential is an access token and the refresh token that replaces it, *)
(* known here by the number under which the server issued the pair.  The   *)
(* server (external) takes a refresh token once.  All processes keep the   *)
(* credential in one file without a lock; a save truncates the file and    *)
(* then fills it.                                                          *)
(***************************************************************************)
EXTENDS Naturals, FiniteSets

CONSTANTS
  Processes,    (* processes of the user                                    *)
  HasEnv,       (* those with OPENAI_CODEX_TOKEN set                        *)
  MaxIssued,    (* bound on the credentials the server issues               *)
  NoFile, Torn, (* there is no file; its content does not parse             *)
  EnvToken,     (* the token of the environment                             *)
  None,         (* no token, no answer                                      *)
  Refused       (* the server, or the way to it, answers with an error      *)

ASSUME CredentialAssumption ==
  /\ MaxIssued \in Nat \ {0}
  /\ HasEnv \subseteq Processes
  /\ Cardinality({NoFile, Torn, EnvToken, None, Refused}) = 5
  /\ {NoFile, Torn, EnvToken, None, Refused} \cap Nat = {}

Ids == 1 .. MaxIssued

VARIABLES
  (* the server *)
  issued,       (* credentials issued so far                                *)
  live,         (* those whose refresh token has not been used              *)
  age,          (* of each access token: 0 fresh, 1 within the margin of    *)
                (*   is_expired, 2 refused                                  *)
  (* the file and the processes *)
  file,
  call,         (* what each process is doing                               *)
  token,        (* OpenAICodexProvider.token of each process                *)
  lost          (* live credentials that have been dropped (history)        *)

vars == <<issued, live, age, file, call, token, lost>>
server == <<issued, live, age>>

(* pc: "off", "idle", "refreshing", "saving", "filling", "sending" and, at  *)
(* login, "codeAsked", "waiting", "polling", "callback", "exchanging".      *)
(* goal: what the credential is for.  asked: the credential whose refresh   *)
(* token is presented; answer: what the server says to it.  late: the       *)
(* deadline of the login has passed; slack: a minute has, since the token   *)
(* was looked at.  how: where the token of the request comes from.          *)
At(s) == [pc |-> s, goal |-> "none", asked |-> None, answer |-> None,
          late |-> FALSE, slack |-> FALSE, how |-> "none"]

Init ==
  /\ issued = 1 /\ live = {1} /\ age \in [{1} -> {0, 1}]
  /\ file \in {1, NoFile}
  /\ call = [p \in Processes |-> At("off")]
  /\ token = [p \in Processes |-> None]
  /\ lost = {1} \ {file}

AtMargin(n) == age[n] = 2    \* mutant: a token is used until its last second

(* CodexCredential::is_expired: a minute early. *)
IsExpired(n) == age[n] >= 1

(* CodexCredential::load gives a credential. *)
Stored == file \in Ids

Become(p, c) == call' = [call EXCEPT ![p] = c]
Doing(p, s)  == call[p].pc = s

Drop(ids) == lost' = (lost \cup ids) \cap live'

-----------------------------------------------------------------------------
(* The server (external). *)

Issue(replaced) ==
  /\ issued < MaxIssued
  /\ issued' = issued + 1
  /\ live' = (live \ replaced) \cup {issued'}
  /\ age' = [i \in 1 .. issued' |-> IF i = issued' THEN 0 ELSE age[i]]

Waits(p) == call[p].answer = None

(* A refresh token is taken once.  The answer to a rotation may get lost or *)
(* may not parse.                                                           *)
Rotate(p) ==
  /\ Doing(p, "refreshing") /\ Waits(p) /\ call[p].asked \in live
  /\ Issue({call[p].asked})
  /\ \/ Become(p, [call[p] EXCEPT !.answer = issued']) /\ Drop({})
     \/ Become(p, [call[p] EXCEPT !.answer = Refused]) /\ Drop({issued'})
  /\ UNCHANGED <<file, token>>

(* An error, of the server or on the way to it. *)
Refuse(p) ==
  /\ call[p].pc \in {"refreshing", "exchanging", "codeAsked", "polling"} /\ Waits(p)
  /\ Become(p, [call[p] EXCEPT !.answer = Refused])
  /\ UNCHANGED <<server, file, token, lost>>

(* An access token gets older; at most a minute passes between the look at  *)
(* the token and the request.                                               *)
Age(n) ==
  /\ age[n] < 2
  /\ n \in {file} \cup { token[p] : p \in Processes } \cup { call[p].answer : p \in Processes }
  /\ \A p \in Processes : Doing(p, "sending") => ~call[p].slack
  /\ age' = [age EXCEPT ![n] = @ + 1]
  /\ call' = [p \in Processes |-> [call[p] EXCEPT !.slack = Doing(p, "sending")]]
  /\ UNCHANGED <<issued, live, file, token, lost>>

-----------------------------------------------------------------------------
(* Start-up. *)

(* from_env: the environment, or a stored token that has not expired.       *)
FromEnv(p) ==
  /\ Doing(p, "off")
  /\ p \in HasEnv \/ (Stored /\ ~IsExpired(file))
  /\ token' = [token EXCEPT ![p] = IF p \in HasEnv THEN EnvToken ELSE file]
  /\ Become(p, At("idle"))
  /\ UNCHANGED <<server, file, lost>>

(* from_any, resolve_codex_token, when neither is there: a refresh is tried *)
(* and then a login.                                                        *)
Resolve(p) ==
  /\ Doing(p, "off") /\ p \notin HasEnv /\ (Stored => IsExpired(file))
  /\ Become(p, IF Stored THEN [At("refreshing") EXCEPT !.goal = "resolve", !.asked = file]
               ELSE [At("codeAsked") EXCEPT !.goal = "login"])
  /\ UNCHANGED <<server, file, token, lost>>

-----------------------------------------------------------------------------
(* ProviderApi::stream, up to the request. *)

Sending(h) == [At("sending") EXCEPT !.goal = "request", !.how = h]

RefreshFirst(p) ==
  /\ Doing(p, "idle") /\ Stored /\ IsExpired(file)
  /\ Become(p, [At("refreshing") EXCEPT !.goal = "request", !.asked = file])
  /\ UNCHANGED <<server, file, token, lost>>

UseToken(p) ==
  /\ Doing(p, "idle") /\ (Stored => ~IsExpired(file))
  /\ token' = [token EXCEPT ![p] = IF Stored THEN file ELSE @]
  /\ Become(p, Sending(IF Stored THEN "stored" ELSE "kept"))
  /\ UNCHANGED <<server, file, lost>>

(* A refresh that fails: the request is sent with the token there is; at    *)
(* start-up the user must log in.                                           *)
RefreshFails(p) ==
  /\ Doing(p, "refreshing") /\ call[p].answer = Refused
  /\ Become(p, IF call[p].goal = "request" THEN Sending("kept")
               ELSE [At("codeAsked") EXCEPT !.goal = "login"])
  /\ UNCHANGED <<server, file, token, lost>>

(* The new credential has arrived: save it. *)
Refreshed(p) ==
  /\ call[p].pc \in {"refreshing", "exchanging"} /\ call[p].answer \in Ids
  /\ Become(p, [call[p] EXCEPT !.pc = "saving"])
  /\ UNCHANGED <<server, file, token, lost>>

(* After the save.  Only a login looks whether it succeeded.                *)
Proceed(p, saved) ==
  IF call[p].goal = "login" /\ ~saved
    THEN Become(p, At("off")) /\ UNCHANGED token
    ELSE /\ token' = [token EXCEPT ![p] = call[p].answer]
         /\ Become(p, IF call[p].goal = "request" THEN Sending("refreshed") ELSE At("idle"))

Replaced(p) == call[p].asked    \* mutant: the credential that was loaded is saved

Written(p) == call[p].answer

(* fs::write: truncate, fill.  Either may fail. *)
Truncate(p) ==
  /\ Doing(p, "saving")
  /\ file' = Torn
  /\ Become(p, [call[p] EXCEPT !.pc = "filling"])
  /\ UNCHANGED <<server, token>>
  /\ Drop({file})

Fill(p) ==
  /\ Doing(p, "filling")
  /\ file' = Written(p)
  /\ Proceed(p, TRUE)
  /\ UNCHANGED server
  /\ Drop({file} \ {call[p].answer})

SaveFails(p) ==
  /\ call[p].pc \in {"saving", "filling"}
  /\ Proceed(p, FALSE)
  /\ UNCHANGED <<server, file>>
  /\ Drop({call[p].answer})

Send(p) ==
  /\ Doing(p, "sending")
  /\ Become(p, At("idle"))
  /\ UNCHANGED <<server, file, token, lost>>

(* What a process has is dropped with it: the answer of the server, whether *)
(* it has come or is still to come.                                         *)
Abandon(p) ==
  \/ UNCHANGED server /\ Drop({call[p].answer})
  \/ /\ Doing(p, "refreshing") /\ Waits(p) /\ call[p].asked \in live
     /\ Issue({call[p].asked}) /\ Drop({issued'})

(* The run is cancelled while its refresh is awaited: the future is dropped.*)
Cancel(p) ==
  /\ Doing(p, "refreshing") /\ call[p].goal = "request"
  /\ Become(p, At("idle"))
  /\ Abandon(p)
  /\ UNCHANGED <<file, token>>

-----------------------------------------------------------------------------
(* Login with a device code. *)

Goes(p, from, to) ==
  /\ Doing(p, from) /\ Waits(p)
  /\ Become(p, IF to = "off" THEN At("off") ELSE [call[p] EXCEPT !.pc = to])
  /\ UNCHANGED <<server, file, token, lost>>

CodeShown(p)  == Goes(p, "codeAsked", "waiting")
Poll(p)       == Goes(p, "waiting", "polling")
Authorized(p) == Goes(p, "polling", "exchanging")

AnyTime(p) == Goes(p, "polling", "waiting")    \* mutant: no deadline

(* Pending, or slow_down: wait again, unless the deadline has passed.       *)
Pending(p) == Goes(p, "polling", IF call[p].late THEN "off" ELSE "waiting")

LoginFails(p) ==
  /\ call[p].pc \in {"codeAsked", "polling", "exchanging"} /\ call[p].answer = Refused
  /\ Become(p, At("off"))
  /\ UNCHANGED <<server, file, token, lost>>

TimePasses(p) ==
  /\ call[p].pc \in {"waiting", "polling"} /\ ~call[p].late
  /\ Become(p, [call[p] EXCEPT !.late = TRUE])
  /\ UNCHANGED <<server, file, token, lost>>

(* The abort signal ends a wait, not a request. *)
Abort(p) == \E s \in {"waiting", "callback"} : Goes(p, s, "off")

(* exchange_code: a login of its own, besides the one there may be.         *)
Exchange(p) ==
  /\ Doing(p, "exchanging") /\ Waits(p)
  /\ Issue({})
  /\ Become(p, [call[p] EXCEPT !.answer = issued'])
  /\ UNCHANGED <<file, token, lost>>

(* Login with a browser: one process at a time has the port.                *)
BrowserLogin(p) ==
  /\ Doing(p, "off") /\ \A q \in Processes : ~Doing(q, "callback")
  /\ Become(p, [At("callback") EXCEPT !.goal = "login"])
  /\ UNCHANGED <<server, file, token, lost>>

(* A callback with a code; one without, or five minutes without any.        *)
CallbackCode(p)  == Goes(p, "callback", "exchanging")
CallbackFails(p) == Goes(p, "callback", "off")

-----------------------------------------------------------------------------

Crash(p) ==
  /\ ~Doing(p, "off")
  /\ Become(p, At("off"))
  /\ token' = [token EXCEPT ![p] = None]
  /\ Abandon(p)
  /\ UNCHANGED file

Works(p) ==
  \/ RefreshFails(p) \/ Refreshed(p) \/ Truncate(p) \/ Fill(p) \/ SaveFails(p) \/ Send(p)
  \/ CodeShown(p) \/ LoginFails(p) \/ Poll(p) \/ Authorized(p) \/ Pending(p)

Next ==
  \/ \E n \in DOMAIN age : Age(n)
  \/ \E p \in Processes :
       \/ FromEnv(p) \/ Resolve(p) \/ RefreshFirst(p) \/ UseToken(p) \/ Works(p)
       \/ Rotate(p) \/ Refuse(p) \/ Exchange(p) \/ Cancel(p)
       \/ TimePasses(p) \/ Abort(p) \/ BrowserLogin(p) \/ CallbackCode(p) \/ CallbackFails(p)
       \/ Crash(p)

(* A process goes on, the server answers, time passes and a callback that   *)
(* does not come times out.                                                 *)
Fairness ==
  \A p \in Processes :
    /\ WF_vars(Works(p)) /\ WF_vars(Refuse(p)) /\ WF_vars(TimePasses(p))
    /\ WF_vars(CallbackFails(p))

Spec == Init /\ [][Next]_vars /\ Fairness

-----------------------------------------------------------------------------
(* Properties. *)

(* A login is not lost on the way: a refresh token the server would still   *)
(* take is in the file or in the hands of a process that is about to save   *)
(* it, however the refreshes and saves of several processes meet -          *)
(* except where a crash, a cancelled run, an unreadable answer, a failed    *)
(* save or another login has dropped it.                                    *)
LoginKept == live \ lost \subseteq {file} \cup { call[p].answer : p \in Processes }

(* A token that was stored and found fresh is still accepted when the       *)
(* request is sent, up to a minute after the look at it.                    *)
FreshTokenAccepted ==
  \A p \in Processes :
    Doing(p, "sending") /\ call[p].how = "stored" => age[token[p]] < 2

(* Every refresh, save and login comes to an end, with a token or without.  *)
CallsSettle ==
  \A p \in Processes :
    call[p].pc \notin {"off", "idle"} ~> call[p].pc \in {"off", "idle"}

(* openai_codex.rs: "Token resolution (in priority order): 1.               *)
(* `OPENAI_CODEX_TOKEN` env var".                                           *)
EnvTokenFirst ==
  \A p \in HasEnv : Doing(p, "sending") => token[p] = EnvToken
=============================================================================
