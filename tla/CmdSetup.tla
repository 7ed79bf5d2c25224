------------------------------- MODULE CmdSetup -------------------------------
(***************************************************************************)
(* The micro command line (src/cmd/cmd.go).  Setup registers the          *)
(* sub-commands and sorts them with sort.Sort by their index in           *)
(* commandOrder (commands not listed compare as math.MaxInt32, all        *)
(* equal); the Before hook, run before any action, calls the previous     *)
(* Before (exit 1 on error), gives the default store its database and     *)
(* table when the flags leave them unset, and with the JWT auth grants    *)
(* the system rules one by one, returning at the first error.  Then the   *)
(* chosen sub-command runs, or the root action, which runs the first      *)
(* argument as a program found in PATH and exits 1 otherwise.             *)
(***************************************************************************)
EXTENDS Naturals, Sequences, SequencesExt

CONSTANTS
  Registered,    \* names of the commands in the order Setup appends them
  CommandOrder,  \* commandOrder
  SystemRules,   \* inauth.SystemRules, in order
  InPath,        \* names exec.LookPath finds
  FlagSets,      \* the command lines the process may get
  None

VARIABLES
  flags,     \* the command line; flags.arg is the first argument
  pc,        \* where the process is
  commands,  \* app.Commands after Setup
  store,     \* the default store's database and table after Before
  granted,   \* number of system rules granted so far
  ran        \* what ran: None, a command name, "exec"

vars == <<flags, pc, commands, store, granted, ran>>

AppName  == "micro"
MaxInt32 == 2147483647  \* math.MaxInt32

\* variant: a name missing from commandOrder ranks first
RankNoDefault(name) ==
  IF \E i \in 1..Len(CommandOrder) : CommandOrder[i] = name
  THEN CHOOSE i \in 0..Len(CommandOrder) - 1 : CommandOrder[i + 1] = name
  ELSE 0

\* index[name] over commandOrder (0-based), math.MaxInt32 when absent
Rank(name) ==
  IF \E i \in 1..Len(CommandOrder) : CommandOrder[i] = name
  THEN CHOOSE i \in 0..Len(CommandOrder) - 1 : CommandOrder[i + 1] = name
  ELSE MaxInt32

Less(a, b) == Rank(a) < Rank(b)

(* sort.Sort is not stable: its result is some permutation in which no   *)
(* element is Less than one before it; which one, for equal elements,    *)
(* depends on the algorithm, so all of them are possible outcomes.       *)
SortOutcomes(s) ==
  {p \in SetToSeqs(Range(s)) :
     \A i, j \in 1..Len(p) : i < j => ~Less(p[j], p[i])}

-----------------------------------------------------------------------------
\* Setup: append the commands and sort them
Setup ==
  /\ pc = "setup"
  /\ commands' \in SortOutcomes(Registered)
  /\ pc' = "before"
  /\ UNCHANGED <<flags, store, granted, ran>>

\* the previous Before hook; its error is printed and the process exits 1
PreviousBefore ==
  /\ pc = "before"
  /\ pc' \in {"store", "exited"}
  /\ UNCHANGED <<flags, commands, store, granted, ran>>

(* Store defaults: the database is the app name, the table the first     *)
(* argument or else the app name, each only when its flag is empty (a   *)
(* flag that is set was already applied to the store by go-micro).       *)
StoreDefaults ==
  /\ pc = "store"
  /\ store' = [db |-> IF flags.store_database = "" THEN AppName
                                                   ELSE flags.store_database,
               table |-> IF flags.store_table # "" THEN flags.store_table
                         ELSE IF flags.arg # "" THEN flags.arg ELSE AppName]
  /\ pc' = IF flags.auth = "jwt" THEN "grant" ELSE "action"
  /\ UNCHANGED <<flags, commands, granted, ran>>

\* variant: a failed grant is skipped
GrantSkipsError ==
  /\ pc = "grant"
  /\ granted < Len(SystemRules)
  /\ granted' \in {granted, granted + 1}
  /\ pc' = IF granted = Len(SystemRules) - 1 THEN "action" ELSE "grant"
  /\ UNCHANGED <<flags, commands, store, ran>>

Grant ==
  /\ pc = "grant"
  /\ granted < Len(SystemRules)
  /\ \/ granted' = granted + 1
        /\ pc' = IF granted' = Len(SystemRules) THEN "action" ELSE "grant"
     \/ pc' = "failed" /\ UNCHANGED granted
  /\ UNCHANGED <<flags, commands, store, ran>>

(* The action: a registered command by name, else the root action, which *)
(* runs the first argument found in PATH and exits 1 for an unknown one   *)
(* or when there is no argument.                                          *)
Action ==
  /\ pc = "action"
  /\ CASE flags.arg \in Range(commands) -> ran' = flags.arg /\ pc' = "done"
       [] flags.arg \in InPath            -> ran' = "exec" /\ pc' = "done"
       [] OTHER                           -> pc' = "exited" /\ UNCHANGED ran
  /\ UNCHANGED <<flags, commands, store, granted>>

Init ==
  /\ flags \in FlagSets
  /\ pc = "setup"
  /\ commands = << >>
  /\ store = [db |-> None, table |-> None]
  /\ granted = 0
  /\ ran = None

Next ==
  \/ Setup \/ PreviousBefore \/ StoreDefaults \/ Grant \/ Action

\* the process ends when the action returns, exits or Before fails
Spec == Init /\ [][Next]_vars

-----------------------------------------------------------------------------
TypeOK ==
  /\ pc \in {"setup", "before", "store", "grant", "action", "done", "failed",
             "exited"}
  /\ granted \in 0..Len(SystemRules)
  /\ ran \in {None, "exec"} \cup Range(Registered)

(* The JWT comment: the system rules are added because the JWT auth has  *)
(* no access to the auth service's rules.  Whatever grant fails, no      *)
(* command or program runs under the JWT auth before every system rule  *)
(* was granted, in order.                                                *)
RulesBeforeAction ==
  ran # None /\ flags.auth = "jwt" => granted = Len(SystemRules)

(* Help lists the commands of commandOrder first, in that order, then the *)
(* commands commandOrder does not name: reference, computed by filtering *)
(* rather than sorting.                                                   *)
HelpOrder ==
  pc \notin {"setup"} =>
    LET listed == SelectSeq(CommandOrder, LAMBDA n : n \in Range(Registered))
    IN /\ SubSeq(commands, 1, Len(listed)) = listed
       /\ Range(SubSeq(commands, Len(listed) + 1, Len(commands)))
            = Range(Registered) \ Range(CommandOrder)
=============================================================================
