----------------------------- MODULE VaultSession -----------------------------
(***************************************************************************)
(* Login, logout and the master key.  The IPC thread logs in, unlocks the  *)
(* vault and keeps the unlocked vault across restarts: the master key,     *)
(* wrapped under a fresh key, goes into the account row, the wrapping key  *)
(* into the system's keyring under an id made from the account's address.  *)
(* The loop's thread takes the master key for what it encrypts, restoring  *)
(* it from row and keyring when the vault is locked, and sends the result  *)
(* under the cookies of the last login.  The command line's set-base-url   *)
(* writes the row and the keyring from a process of its own.  Nothing      *)
(* orders the three, each statement may fail, and the daemon may die       *)
(* between any two steps.                                                  *)
(*                                                                         *)
(* A user stands for the account's address, its vault material and its     *)
(* master key; a wrapping key is a number and opens the blob that carries  *)
(* the same number.  The keyring and the server are external.  A new       *)
(* address of the server is one that was not in use before: no cookie and  *)
(* no key belongs to it.                                                   *)
(***************************************************************************)
EXTENDS Naturals

CONSTANTS
  Users,        \* accounts of the server, positive numbers
  MaxCommands,  \* bound on commands, set-base-url too, and so on wrapping keys
  MaxTrouble    \* bound on failing steps and crashes

ASSUME UsersAssumption == Users \subseteq Nat \ {0}
ASSUME BoundsAssumption == MaxCommands \in Nat /\ MaxTrouble \in Nat

VARIABLES
  cookie,    \* whose session the cookie jar holds, or 0
  acct,      \* the account row: email, material, vault_session_key_id and blob
  keyring,   \* [Users -> the wrapping key stored under the user's id, or 0]
  up,        \* the daemon runs
  mem,       \* masterKey_, or 0
  ipc,       \* the IPC thread: step, user, its copy of the row, wrapping key
  loop,      \* the loop's thread: step, its copy of the row, the key it took
  cli,       \* the process of set-base-url: step, the row it will write
  moved,     \* the row has a new address, the daemon the one it started with
  stored,    \* what reached the server: under whose key, in whose account
  commands, trouble, \* counters for the bounds
  who,       \* history: who logged in and has not logged out
  out,       \* history: the last command was a logout that succeeded
  switched,  \* history: a login while another user was logged in
  overlap,   \* history: two of command, loop and set-base-url were at work at once
  torn       \* history: a session's key was stored and its blob was not

NoBlob == [key |-> 0, wrap |-> 0]
NoAccount == [email |-> 0, material |-> 0, keyId |-> 0, blob |-> NoBlob]
IpcIdle == [pc |-> "idle", user |-> 0, copy |-> NoAccount, wrap |-> 0]
LoopIdle == [pc |-> "idle", copy |-> NoAccount, got |-> 0]
CliIdle == [pc |-> "idle", new |-> FALSE, copy |-> NoAccount]

diskVars == <<cookie, acct, keyring>>
boundVars == <<commands, trouble>>
cliVars == <<cli, moved>>
vars == <<diskVars, up, mem, ipc, loop, cliVars, stored, boundVars, who, out,
          switched, overlap, torn>>

Init ==
  /\ cookie = 0 /\ acct = NoAccount /\ keyring = [u \in Users |-> 0]
  /\ up = TRUE /\ mem = 0 /\ ipc = IpcIdle /\ loop = LoopIdle
  /\ cli = CliIdle /\ moved = FALSE /\ stored = {}
  /\ commands = 0 /\ trouble = 0
  /\ who = 0 /\ out = FALSE /\ switched = FALSE /\ overlap = FALSE /\ torn = FALSE

-----------------------------------------------------------------------------
Fault == trouble < MaxTrouble /\ trouble' = trouble + 1 /\ UNCHANGED commands

NoFault == UNCHANGED boundVars

\* A step of the IPC thread at pc, one of the loop, one of set-base-url.
IpcAt(pc) ==
  /\ up /\ ipc.pc = pc
  /\ overlap' = (overlap \/ loop.pc # "idle" \/ cli.pc # "idle")
  /\ UNCHANGED <<up, loop, cliVars, stored>>

LoopAt(pc) ==
  /\ up /\ loop.pc = pc
  /\ overlap' = (overlap \/ ipc.pc # "idle" \/ cli.pc # "idle")
  /\ UNCHANGED <<cookie, keyring, up, ipc, cliVars, who, out, switched, torn>>

CliAt(pc) ==
  /\ cli.pc = pc
  /\ overlap' = (overlap \/ ipc.pc # "idle" \/ loop.pc # "idle")
  /\ UNCHANGED <<up, mem, ipc, loop, stored, out, switched, torn>>

Goto(pc) == ipc' = [ipc EXCEPT !.pc = pc]

\* The command is answered, with success or with an error.
Answer == ipc' = IpcIdle

-----------------------------------------------------------------------------
(***************************************************************************)
(* commands::login: with an email a login, without one an unlock of the    *)
(* account whose session is valid.                                         *)
(***************************************************************************)

Request(c, u) ==
  /\ IpcAt("idle")
  /\ commands < MaxCommands /\ commands' = commands + 1
  /\ ipc' = [pc |-> c, user |-> u, copy |-> acct, wrap |-> 0]
  /\ out' = FALSE
  /\ UNCHANGED <<diskVars, mem, trouble, who, switched, torn>>

\* AuthService::login, api_.login and api_.me.
Login ==
  /\ IpcAt("login")
  /\ \/ NoFault /\ cookie' = ipc.user /\ Goto("upsert")
     \/ Fault /\ cookie' \in {cookie, ipc.user} /\ Answer
  /\ switched' = (switched \/ who \notin {0, ipc.user})
  /\ who' = ipc.user
  /\ UNCHANGED <<acct, keyring, mem, out, torn>>

\* The vault material of the login; the vault session columns of the copy.
UpsertAccount ==
  /\ IpcAt("upsert")
  /\ \/ /\ NoFault /\ Goto("unlock")
        /\ acct' = [ipc.copy EXCEPT !.email = ipc.user, !.material = ipc.user]
     \/ Fault /\ Answer /\ UNCHANGED acct
  /\ UNCHANGED <<cookie, keyring, mem, who, out, switched, torn>>

\* hasValidSession, and refreshVaultMaterial if the row has no material.
\* Without a session this is a login without an email, which is refused.
UnlockOnly ==
  /\ IpcAt("password")
  /\ \/ Fault /\ Answer /\ UNCHANGED acct
     \/ NoFault /\ cookie = 0 /\ Answer /\ UNCHANGED acct
     \/ /\ NoFault /\ cookie # 0 /\ Goto("unlock")
        /\ acct' = IF ipc.copy.material # 0 THEN acct
                   ELSE [ipc.copy EXCEPT !.material = cookie]
  /\ UNCHANGED <<cookie, keyring, mem, who, out, switched, torn>>

\* VaultService::unlock.  A wrong password leaves the vault as it was.
Unlock ==
  /\ IpcAt("unlock")
  /\ \/ acct.material = 0 /\ Answer /\ NoFault /\ UNCHANGED mem
     \/ acct.material # 0 /\ Fault /\ Answer /\ UNCHANGED mem
     \/ acct.material # 0 /\ NoFault /\ Goto("persist") /\ mem' = acct.material
  /\ UNCHANGED <<diskVars, who, out, switched, torn>>

OtherSecretDropped ==
  IF acct.keyId \in {0, acct.email} THEN keyring ELSE [keyring EXCEPT ![acct.keyId] = 0]

ToStore == [pc |-> "store", user |-> mem, copy |-> acct, wrap |-> commands]

PersistWithoutEmail ==
  /\ IpcAt("persist") /\ NoFault
  /\ keyring' = OtherSecretDropped /\ ipc' = ToStore
  /\ UNCHANGED <<cookie, acct, mem, who, out, switched, torn>>

\* persistSession reads the row, makes the id from the email and deletes a key
\* under another id.  The wrapping key is new with every command.
DropOldSecret ==
  /\ IpcAt("persist")
  /\ \/ acct.email = 0 /\ NoFault /\ Answer /\ UNCHANGED keyring
     \/ acct.email # 0 /\ NoFault /\ keyring' = OtherSecretDropped /\ ipc' = ToStore
     \/ acct.email # 0 /\ Fault /\ Answer /\ UNCHANGED keyring
  /\ UNCHANGED <<cookie, acct, mem, who, out, switched, torn>>

StoreSecret ==
  /\ IpcAt("store")
  /\ \/ /\ NoFault /\ Goto("save")
        /\ keyring' = [keyring EXCEPT ![ipc.copy.email] = ipc.wrap]
     \/ Fault /\ Answer /\ UNCHANGED keyring
  /\ UNCHANGED <<cookie, acct, mem, who, out, switched, torn>>

\* As if a row that has a session for this id were up to date.
SaveNewSession ==
  /\ IpcAt("save") /\ NoFault
  /\ acct' = IF acct.keyId = ipc.copy.email THEN acct
             ELSE [acct EXCEPT !.keyId = ipc.copy.email,
                               !.blob = [key |-> ipc.user, wrap |-> ipc.wrap]]
  /\ Answer
  /\ UNCHANGED <<cookie, keyring, mem, who, out, switched, torn>>

\* saveVaultSession.  An UPDATE that fails leaves the new key with the old
\* blob, or with none.
SaveSession ==
  /\ IpcAt("save") /\ Answer
  /\ \/ /\ NoFault /\ UNCHANGED torn
        /\ acct' = [acct EXCEPT !.keyId = ipc.copy.email,
                                !.blob = [key |-> ipc.user, wrap |-> ipc.wrap]]
     \/ Fault /\ torn' = TRUE /\ UNCHANGED acct
  /\ UNCHANGED <<cookie, keyring, mem, who, out, switched>>

-----------------------------------------------------------------------------
(***************************************************************************)
(* commands::logout.                                                       *)
(***************************************************************************)

ForgetSession(a) == [a EXCEPT !.keyId = 0, !.blob = NoBlob]

LockNothing ==
  /\ IpcAt("logout") /\ NoFault
  /\ Goto("forget")
  /\ UNCHANGED <<diskVars, mem, who, out, switched, torn>>

Lock ==
  /\ IpcAt("logout") /\ NoFault
  /\ mem' = 0
  /\ Goto("forget")
  /\ UNCHANGED <<diskVars, who, out, switched, torn>>

KeepSecret ==
  /\ IpcAt("forget") /\ NoFault
  /\ Goto("clear")
  /\ UNCHANGED <<diskVars, mem, who, out, switched, torn>>

\* clearPersistedSession: the key first, then the columns.
DeleteSecret ==
  /\ IpcAt("forget")
  /\ \/ acct.keyId = 0 /\ NoFault /\ Goto("signOut") /\ UNCHANGED keyring
     \/ /\ acct.keyId # 0 /\ NoFault /\ Goto("clear")
        /\ keyring' = [keyring EXCEPT ![acct.keyId] = 0]
     \/ acct.keyId # 0 /\ Fault /\ Answer /\ UNCHANGED keyring
  /\ UNCHANGED <<cookie, acct, mem, who, out, switched, torn>>

ClearSession ==
  /\ IpcAt("clear")
  /\ \/ NoFault /\ acct' = ForgetSession(acct) /\ Goto("signOut")
     \/ Fault /\ Answer /\ UNCHANGED acct
  /\ UNCHANGED <<cookie, keyring, mem, who, out, switched, torn>>

\* AuthService::logout.  Without a valid session there is nothing to end; if
\* the server cannot be reached the logout fails.
SignOut ==
  /\ IpcAt("signOut")
  /\ \/ NoFault /\ cookie' = 0 /\ Goto("clearAccount")
     \/ Fault /\ cookie' \in {cookie, 0} /\ Answer
  /\ UNCHANGED <<acct, keyring, mem, who, out, switched, torn>>

ClearAccount ==
  /\ IpcAt("clearAccount") /\ Answer
  /\ \/ NoFault /\ acct' = NoAccount /\ out' = TRUE /\ who' = 0
     \/ Fault /\ UNCHANGED <<acct, out, who>>
  /\ UNCHANGED <<cookie, keyring, mem, switched, torn>>

-----------------------------------------------------------------------------
(***************************************************************************)
(* The loop's thread: ensureUnlocked, masterKey, and a request.            *)
(***************************************************************************)

\* restoreSession reads the row, if the vault is locked.
NeedKey ==
  /\ LoopAt("idle") /\ NoFault
  /\ \/ mem # 0 /\ loop' = [loop EXCEPT !.pc = "take"]
     \/ mem = 0 /\ acct.keyId # 0 /\ acct.blob # NoBlob
        /\ loop' = [loop EXCEPT !.pc = "load", !.copy = acct]
  /\ UNCHANGED <<acct, mem, stored>>

\* A key that is gone makes the session worthless: the columns are cleared.
\* The keyring or the UPDATE may fail.
LoadSecret ==
  /\ LoopAt("load")
  /\ LET wrap == keyring[loop.copy.keyId] IN
     \/ NoFault /\ wrap = 0 /\ acct' = ForgetSession(acct) /\ loop' = LoopIdle
     \/ /\ NoFault /\ wrap # 0 /\ loop' = [loop EXCEPT !.pc = "install", !.got = wrap]
        /\ UNCHANGED acct
     \/ Fault /\ loop' = LoopIdle /\ UNCHANGED acct
  /\ UNCHANGED <<mem, stored>>

\* unwrapMasterKey fails if the blob was made with another key.
InstallKey ==
  /\ LoopAt("install") /\ NoFault
  /\ \/ loop.copy.blob.wrap = loop.got /\ mem' = loop.copy.blob.key
        /\ loop' = [LoopIdle EXCEPT !.pc = "take"]
     \/ loop.copy.blob.wrap # loop.got /\ loop' = LoopIdle /\ UNCHANGED mem
  /\ UNCHANGED <<acct, stored>>

\* masterKey() throws if the vault was locked meanwhile.
TakeKey ==
  /\ LoopAt("take") /\ NoFault
  /\ loop' = IF mem = 0 THEN LoopIdle ELSE [LoopIdle EXCEPT !.pc = "send", !.got = mem]
  /\ UNCHANGED <<acct, mem, stored>>

\* A request without a session is refused.
Send ==
  /\ LoopAt("send") /\ NoFault
  /\ stored' = IF cookie = 0 THEN stored ELSE stored \cup {[key |-> loop.got, user |-> cookie]}
  /\ loop' = LoopIdle
  /\ UNCHANGED <<acct, mem>>

-----------------------------------------------------------------------------
(***************************************************************************)
(* The command line's set-base-url, a process of its own, with the daemon  *)
(* up or down.                                                             *)
(***************************************************************************)

\* The row is read.  The address it has already writes it back; with another
\* one clearPersistedSession deletes the key, and an empty row will be written.
SetBaseUrl ==
  /\ CliAt("idle")
  /\ commands < MaxCommands /\ commands' = commands + 1
  /\ \/ /\ cli' = [pc |-> "upsert", new |-> FALSE, copy |-> acct]
        /\ UNCHANGED keyring
     \/ /\ acct.keyId = 0
        /\ cli' = [pc |-> "upsert", new |-> TRUE, copy |-> NoAccount]
        /\ UNCHANGED keyring
     \/ /\ acct.keyId # 0
        /\ cli' = [pc |-> "clear", new |-> TRUE, copy |-> NoAccount]
        /\ keyring' = [keyring EXCEPT ![acct.keyId] = 0]
  /\ UNCHANGED <<cookie, acct, moved, trouble, who>>

ClearOldSession ==
  /\ CliAt("clear")
  /\ \/ NoFault /\ acct' = ForgetSession(acct) /\ cli' = [cli EXCEPT !.pc = "upsert"]
     \/ Fault /\ cli' = CliIdle /\ UNCHANGED acct
  /\ UNCHANGED <<cookie, keyring, moved, who>>

\* A daemon that is up goes on with the address and the cookies it has.
WriteBaseUrl ==
  /\ CliAt("upsert") /\ cli' = CliIdle
  /\ \/ NoFault /\ acct' = cli.copy /\ ~cli.new /\ UNCHANGED <<cookie, moved, who>>
     \/ /\ NoFault /\ acct' = cli.copy /\ cli.new /\ up /\ moved' = TRUE
        /\ UNCHANGED <<cookie, who>>
     \/ /\ NoFault /\ acct' = cli.copy /\ cli.new /\ ~up
        /\ cookie' = 0 /\ who' = 0 /\ UNCHANGED moved
     \/ Fault /\ UNCHANGED <<acct, cookie, moved, who>>
  /\ UNCHANGED keyring

-----------------------------------------------------------------------------
(***************************************************************************)
(* The daemon's process.                                                   *)
(***************************************************************************)

Crash ==
  /\ up /\ Fault
  /\ up' = FALSE /\ mem' = 0 /\ ipc' = IpcIdle /\ loop' = LoopIdle
  /\ torn' = (torn \/ ipc.pc = "save")
  /\ UNCHANGED <<diskVars, cliVars, stored, who, out, switched, overlap>>

\* The daemon starts with the row's address; if that is a new one, cookies are
\* another server's.
Boot ==
  /\ ~up /\ up' = TRUE /\ moved' = FALSE
  /\ cookie' = IF moved THEN 0 ELSE cookie
  /\ who' = IF moved /\ acct = NoAccount THEN 0 ELSE who
  /\ UNCHANGED <<acct, keyring, mem, ipc, loop, cli, stored, boundVars, out, switched,
                 overlap, torn>>

Next ==
  \/ \E u \in Users : Request("login", u)
  \/ Request("password", 0) \/ Request("logout", 0)
  \/ Login \/ UpsertAccount \/ UnlockOnly \/ Unlock
  \/ DropOldSecret \/ StoreSecret \/ SaveSession
  \/ Lock \/ DeleteSecret \/ ClearSession \/ SignOut \/ ClearAccount
  \/ NeedKey \/ LoadSecret \/ InstallKey \/ TakeKey \/ Send
  \/ SetBaseUrl \/ ClearOldSession \/ WriteBaseUrl
  \/ Crash \/ Boot

Spec == Init /\ [][Next]_vars

-----------------------------------------------------------------------------
User == Users \cup {0}
Wrap == 0..MaxCommands
Account == [email : User, material : User, keyId : User, blob : [key : User, wrap : Wrap]]
IpcState ==
  [pc : {"idle", "login", "password", "upsert", "unlock", "persist", "store", "save",
         "logout", "forget", "clear", "signOut", "clearAccount"},
   user : User, copy : Account, wrap : Wrap]
LoopState ==
  [pc : {"idle", "load", "install", "take", "send"}, copy : Account, got : User \cup Wrap]
CliState == [pc : {"idle", "clear", "upsert"}, new : BOOLEAN, copy : Account]

TypeOK ==
  /\ cookie \in User /\ acct \in Account /\ keyring \in [Users -> Wrap]
  /\ up \in BOOLEAN /\ mem \in User
  /\ ipc \in IpcState /\ loop \in LoopState /\ cli \in CliState /\ moved \in BOOLEAN
  /\ ipc.pc \in {"login", "upsert"} => ipc.user \in Users
  /\ ipc.pc \in {"store", "save"} => ipc.copy.email \in Users
  /\ loop.pc = "load" => loop.copy.keyId \in Users
  /\ stored \subseteq [key : User, user : Users]
  /\ commands \in 0..MaxCommands /\ trouble \in 0..MaxTrouble
  /\ who \in User /\ out \in BOOLEAN /\ switched \in BOOLEAN /\ overlap \in BOOLEAN
  /\ torn \in BOOLEAN

\* Nothing is stored in one account under the master key of another, however
\* logins, logouts and unlocks fail or are cut off by a crash.  It takes a
\* login over another user's, or two of command, loop and set-base-url at work
\* at once, to bring that about.
KeyFitsAccount ==
  \A s \in stored : s.key = s.user \/ switched \/ overlap

\* After a logout the vault is closed and cannot be opened from what is left:
\* no key in memory, no session in the row, no wrapping key in the keyring.
\* The exceptions: a restore that was under way puts the key back (overlap),
\* set-base-url writes back the row it read before (overlap), and a key whose
\* blob was not saved, by a crash or by an UPDATE that failed, stays in the
\* keyring (torn).
LogoutForgets ==
  out => /\ mem = 0 \/ overlap
         /\ acct.blob = NoBlob \/ overlap
         /\ (\A u \in Users : keyring[u] = 0) \/ torn \/ overlap

\* A session that was saved can be restored as long as its key exists, unless
\* a new key was stored and its blob was not saved, because the process died
\* in between or because saveVaultSession threw (torn): then every restore
\* fails until the next unlock (persistSession, restoreSession).
SavedSessionOpens ==
  acct.keyId # 0 /\ keyring[acct.keyId] # 0 /\ ipc.pc # "save"
    => keyring[acct.keyId] = acct.blob.wrap \/ torn \/ overlap
=============================================================================
