---------------------------- MODULE TerminalGuard ----------------------------
(***************************************************************************)
(* What the Ratatui frontend does to the terminal it runs in, and undoes:  *)
(* TerminalGuard (tui/terminal_guard.rs) enters raw mode, the alternate    *)
(* screen and a hidden cursor, keeps what it has entered, and leaves it    *)
(* all once: when it is told to, or when it is dropped.                    *)
(***************************************************************************)
EXTENDS Naturals

VARIABLES
  terminal,   (* the modes the user's terminal is in                       *)
  owned,      (* raw_mode, alternate_screen, cursor_hidden of the guard    *)
  restored,   (* the guard has left them                                   *)
  refused     (* modes that the terminal failed to leave                   *)

guardVars == <<terminal, owned, restored, refused>>

(* In the order in which they are entered. *)
Rank  == [raw |-> 1, alternate |-> 2, cursor |-> 3]
Modes == DOMAIN Rank

GuardTypeOK ==
  /\ terminal \subseteq Modes /\ owned \subseteq Modes /\ refused \subseteq Modes
  /\ restored \in BOOLEAN

GuardInit ==
  /\ terminal = {} /\ owned = {} /\ refused = {}
  /\ restored = FALSE

FirstErrorStops(modes, failing) ==  \* mutant: the steps after an error are skipped
  {m \in modes : \A f \in failing : Rank[m] > Rank[f]}

(* Which of the modes are left, the terminal failing for some: an error    *)
(* does not keep the other steps from running.                             *)
Undone(modes, failing) == modes \ failing

(* The bound: at most one step fails. *)
Failures(modes) == {{}} \cup {{m} : m \in modes}

Leaves(modes) ==
  \E failing \in Failures(modes) :
    /\ terminal' = (terminal \cup modes) \ Undone(modes, failing)
    /\ refused' = failing
    /\ owned' = {}
    /\ restored' = TRUE

(* restore; drop does the same. *)
Restore ==
  \/ ~restored /\ Leaves(owned)
  \/ restored /\ UNCHANGED guardVars

(* new: all three, one after the other. *)
Entered ==
  /\ terminal' = Modes
  /\ owned' = Modes
  /\ UNCHANGED <<restored, refused>>

(* One of them fails: the ones before it are left again. *)
NotEntered ==
  \/ UNCHANGED guardVars
  \/ \E failed \in {"alternate", "cursor"} :
       Leaves({m \in Modes : Rank[m] < Rank[failed]})
=============================================================================
