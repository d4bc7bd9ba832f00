------------------------------ MODULE Accounts ------------------------------
(***************************************************************************)
(* The accounts in the key-value table of the administration database      *)
(* (state_store.cpp) and the handlers Login, CreateUser and AdminListUsers *)
(* (grpc_service.cpp).  The store locks each statement; CreateUser is five *)
(* of them, and its check for an existing user is only the first.          *)
(*                                                                         *)
(* Two conversions are modelled by what they do.  A key and a value become *)
(* part of the text of their statement, which fails when one of them holds *)
(* an apostrophe; nobody looks at the result of a write, and a read that   *)
(* fails is a read that finds nothing.  The user list is one text: a name  *)
(* is appended behind a comma, looked for as a part of the text, and the   *)
(* text is split at every comma, those inside names included.  A name is   *)
(* therefore the sequence of its pieces, nearly always of one.             *)
(*                                                                         *)
(* Passwords are compared with nothing but themselves, so all that is kept *)
(* of them is who has one.  AdminDeleteUser changes nothing.               *)
(***************************************************************************)
EXTENDS Tables, Sequences

CONSTANTS
  Creators,                     \* CreateUser calls handled at the same time
  Names,                        \* user names, each the sequence of its pieces
  Quoted,                       \* those with an apostrophe
  BuiltInList,                  \* "admin,user1", written by every start
  Root,                         \* "admin"
  Occurs(_, _)                  \* whether a name is found in the text of a list

Entries(list) == {list[i] : i \in DOMAIN list}

BuiltIn == Entries(BuiltInList)

ASSUME AccountAssumption ==
  /\ Names \subseteq Seq(STRING) \ {<<>>} /\ Quoted \subseteq Names
  /\ BuiltInList \in Seq(Names \ Quoted) /\ Root \in Entries(BuiltInList)

VARIABLES
  passwords,                    \* names with a row "user:<name>"
  roles,                        \* "role:<name>"
  user_list,                    \* "system:user_list", name by name
  creations,                    \* the locals of the CreateUser calls
  unsaved                       \* history: names whose password was not stored

accountVars == <<passwords, roles, user_list, creations, unsaved>>

Roles == {"admin", "user"}

Creation == [step: {"idle", "password", "role", "read_list", "write_list"},
             username: Names, role: Roles, user_list: Seq(Names)]

NoCreation ==
  [step |-> "idle", username |-> Root, role |-> "user", user_list |-> <<>>]

AccountsInit ==
  /\ passwords = BuiltIn
  /\ roles = [n \in BuiltIn |-> IF n = Root THEN "admin" ELSE "user"]
  /\ user_list = BuiltInList
  /\ creations = [c \in Creators |-> NoCreation]
  /\ unsaved = {}

-----------------------------------------------------------------------------
(* CreateUser, statement by statement.                                     *)

GoTo(c, step) == creations' = [creations EXCEPT ![c].step = step]

(* Faulty: the list is brought up to date before the account exists.       *)
CheckUser_ListFirst(c, n, role) ==
  /\ creations[c].step = "idle" /\ n \notin passwords
  /\ creations' = [creations EXCEPT ![c] = [step |-> "password", username |-> n,
                                            role |-> role, user_list |-> <<>>]]
  /\ user_list' = Append(user_list, n)
  /\ UNCHANGED <<passwords, roles, unsaved>>

CheckUser(c, n, role) ==
  /\ creations[c].step = "idle" /\ n \notin passwords
  /\ creations' = [creations EXCEPT ![c] = [step |-> "password", username |-> n,
                                            role |-> role, user_list |-> <<>>]]
  /\ UNCHANGED <<passwords, roles, user_list, unsaved>>

(* The statement also fails when the password has the apostrophe.          *)
SetPassword(c) ==
  /\ creations[c].step = "password"
  /\ LET n == creations[c].username
     IN  \/ /\ n \notin Quoted
            /\ passwords' = passwords \cup {n} /\ unsaved' = unsaved \ {n}
         \/ passwords' = passwords /\ unsaved' = unsaved \cup ({n} \ passwords)
  /\ GoTo(c, "role")
  /\ UNCHANGED <<roles, user_list>>

SetRole(c) ==
  /\ creations[c].step = "role"
  /\ roles' = IF creations[c].username \in Quoted THEN roles
              ELSE Put(roles, creations[c].username, creations[c].role)
  /\ GoTo(c, "read_list")
  /\ UNCHANGED <<passwords, user_list, unsaved>>

(* A name that is part of a listed one is taken for listed.                *)
ReadList(c) ==
  /\ creations[c].step = "read_list"
  /\ creations' = [creations EXCEPT ![c] =
       IF Occurs(creations[c].username, user_list)
       THEN NoCreation
       ELSE [@ EXCEPT !.step = "write_list", !.user_list = user_list]]
  /\ UNCHANGED <<passwords, roles, user_list, unsaved>>

WriteList(c) ==
  /\ creations[c].step = "write_list"
  /\ user_list' = IF creations[c].username \in Quoted THEN user_list
                  ELSE Append(creations[c].user_list, creations[c].username)
  /\ creations' = [creations EXCEPT ![c] = NoCreation]
  /\ UNCHANGED <<passwords, roles, unsaved>>

CreateUser(c) ==
  \/ \E n \in Names, role \in Roles : CheckUser(c, n, role)
  \/ SetPassword(c) \/ SetRole(c) \/ ReadList(c) \/ WriteList(c)

(* What Login answers to the right password: an account without a role is  *)
(* a user's.                                                               *)
LoginRole(n) == IF n \in DOMAIN roles THEN roles[n] ELSE "user"

(* std::getline at every comma; empty pieces are skipped.                  *)
Pieces(list) == (UNION {Entries(n) : n \in Entries(list)}) \ {""}

AdminListUsers ==
  {[username |-> <<p>>, role |-> LoginRole(<<p>>)] : p \in Pieces(user_list)}

(* The constructor of MasterServer writes the built-in accounts and the    *)
(* list over what the file holds; CreateUser calls die with the master.    *)
AccountsRestart ==
  /\ passwords' = passwords \cup BuiltIn
  /\ roles' = [n \in DOMAIN roles \cup BuiltIn |->
                 IF n \in BuiltIn THEN IF n = Root THEN "admin" ELSE "user"
                 ELSE roles[n]]
  /\ user_list' = BuiltInList
  /\ creations' = [c \in Creators |-> NoCreation]
  /\ UNCHANGED unsaved

-----------------------------------------------------------------------------
AccountsTypeOK ==
  /\ roles \in [DOMAIN roles -> Roles]
  /\ passwords \cup DOMAIN roles \cup unsaved \subseteq Names
  /\ user_list \in Seq(Names)
  /\ creations \in [Creators -> Creation]

(* Whoever AdminListUsers lists has a stored role, and a password unless   *)
(* the statement that was to store it failed; only a name that came out of *)
(* a listed one at a comma may have neither.  A creation that dies halfway *)
(* or overlaps with others leaves an unlisted account, and never lists a   *)
(* name before its account is written.                                     *)
ListedUsersExist ==
  \A u \in AdminListUsers :
    \/ u.username \in DOMAIN roles \cap (passwords \cup unsaved)
    \/ \E n \in Entries(user_list) : Len(n) > 1 /\ u.username[1] \in Entries(n)
=============================================================================
