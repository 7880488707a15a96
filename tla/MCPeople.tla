------------------------------- MODULE MCPeople -------------------------------
(***************************************************************************)
(* Human accounts, and their sessions and passkeys.  What a session needs  *)
(* of an account is a part of HumanSessions, so one of the two at a time   *)
(* takes steps, while the other stays as it began.                         *)
(***************************************************************************)
EXTENDS HumanAccounts, HumanSessions, TLC

CONSTANT Components
VARIABLE component

\* What the behaviours are about: founding, the last administrator, one
\* account's life, recovery against closing, recovery against signing in.
AllMenus == {{"bootstrap", "setup"}, {"create", "import"},
             {"disable", "unassign", "delete", "patch"},
             {"grant", "unassign"}, {"disable", "enable", "delete", "tombstone"},
             {"recover", "patch", "disable"}, {"recover", "login", "codes"}}

\* Guessing passwords; registering passkeys; signing in and stepping up with
\* them; refreshing against signing out and against a disable.
AllSessionMenus == {{"password", "disable"},
                    {"registerOptions", "register"},
                    {"loginOptions", "login", "remove"},
                    {"stepupOptions", "stepup", "logout"},
                    {"refresh", "logoutAll"}}

\* No definition chooses among the requests in flight or among the codes.
Interchangeable == Permutations(Manager) \cup Permutations(Code)

-----------------------------------------------------------------------------
\* Where the one that takes no step has several ways to begin, one is taken.
AccountsRest == menu = {"bootstrap", "setup"}
SessionsRest ==
  /\ sessionMenu = {"password", "disable"}
  /\ \A p \in Passkey : passkey[p] = NoPasskey
  /\ Cardinality({s \in SignIn : signIn[s] # NoSignIn}) = 1

PeopleInit ==
  /\ component \in Components
  /\ AccountsInit /\ (component = "accounts" \/ AccountsRest)
  /\ SessionsInit /\ (component = "sessions" \/ SessionsRest)

PeopleNext ==
  /\ UNCHANGED component
  /\ \/ component = "accounts" /\ AccountsNext /\ UNCHANGED sessionVars
     \/ component = "sessions" /\ SessionsNext /\ UNCHANGED accountVars

PeopleSpec == PeopleInit /\ [][PeopleNext]_<<component, accountVars, sessionVars>>
=============================================================================
