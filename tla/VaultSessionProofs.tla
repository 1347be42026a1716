------------------------- MODULE VaultSessionProofs -------------------------
(***************************************************************************)
(* VaultSession's invariants for any set of users, any number of commands  *)
(* and any number of failures and crashes.                                 *)
(*                                                                         *)
(* The argument.  While commands, loop and set-base-url have not met       *)
(* (~overlap), one of them at most is at work, and the copy of the account *)
(* row it goes by is the row (CopiesFresh).  The keyring then holds one    *)
(* key at most, under the id in the row or the one about to be written     *)
(* there, unless a blob was not saved after its key (OneSecret), and with  *)
(* one user logged in since the last logout all that row, memory and       *)
(* cookies hold is that user's (OneUser).                                  *)
(***************************************************************************)
EXTENDS VaultSession, TLAPS

AfterLock == {"forget", "clear", "signOut", "clearAccount"}

\* The memory of a process that is down is gone, and so is that of a thread
\* with nothing to do.
Forgotten ==
  /\ ~up => mem = 0 /\ ipc = IpcIdle /\ loop = LoopIdle
  /\ ipc.pc = "idle" => ipc = IpcIdle
  /\ loop.pc = "idle" => loop = LoopIdle
  /\ loop.pc = "send" => loop.got \in Users
  /\ cli.pc = "idle" => cli = CliIdle
  /\ cli.new => cli.copy = NoAccount
  /\ cli.pc = "clear" => cli.new

\* One actor at a time, and its copy of the row is the row.
CopiesFresh ==
  ~overlap =>
    /\ ipc.pc = "idle" \/ loop.pc = "idle"
    /\ ipc.pc \in {"login", "password", "upsert"} => ipc.copy = acct
    /\ loop.pc = "load" => loop.copy = acct
    /\ ipc.pc \in AfterLock => mem = 0
    /\ cli.pc # "idle" => ipc.pc = "idle" /\ loop.pc = "idle"
    /\ cli.pc = "upsert" /\ ~cli.new => cli.copy = acct

\* The key that a session is about to be saved for is in the keyring.
KeyStored == ~overlap /\ ipc.pc = "save" => keyring[ipc.copy.email] = ipc.wrap

\* A key in the keyring is the one the row names, or will name.
OneSecret ==
  ~overlap /\ ~torn =>
    \A u \in Users : keyring[u] # 0 =>
      /\ ipc.pc # "save" => u = acct.keyId
      /\ ipc.pc \in {"store", "save"} => u = ipc.copy.email
      /\ ipc.pc \notin {"clear", "signOut", "clearAccount"}
      /\ ~cli.new

\* After a logout the row is empty, and stays so until the next command.
LoggedOut ==
  out => /\ ipc.pc = "idle"
         /\ acct = NoAccount \/ overlap
         /\ ~overlap => mem = 0 /\ loop.pc = "idle"
         /\ (\A u \in Users : keyring[u] = 0) \/ torn \/ overlap

\* All that is kept is of the user who logged in last.
OneUser ==
  ~overlap /\ ~switched =>
    /\ cookie \in {0, who} /\ mem \in {0, who}
    /\ acct.material \in {0, who} /\ acct.blob.key \in {0, who}
    /\ ipc.copy.material \in {0, who} /\ ipc.copy.blob.key \in {0, who}
    /\ loop.copy.blob.key \in {0, who}
    /\ cli.copy.material \in {0, who} /\ cli.copy.blob.key \in {0, who}
    /\ ipc.pc = "upsert" => ipc.user = who
    /\ ipc.pc \in {"store", "save"} => ipc.user \in {0, who}
    /\ loop.pc = "send" => loop.got = who

\* The server's session has ended before the account is cleared.
SignedOut == ipc.pc = "clearAccount" => cookie = 0

IInv ==
  /\ TypeOK /\ Forgotten /\ CopiesFresh /\ KeyStored /\ OneSecret /\ LoggedOut
  /\ OneUser /\ SignedOut /\ KeyFitsAccount /\ SavedSessionOpens

LEMMA NoAccountType == 0 \in User /\ 0 \in Wrap /\ NoAccount \in Account
BY BoundsAssumption DEF User, Wrap, Account, NoAccount, NoBlob

LEMMA IdleTypes ==
  /\ IpcIdle \in IpcState /\ IpcIdle.pc = "idle"
  /\ LoopIdle \in LoopState /\ LoopIdle.pc = "idle"
  /\ CliIdle \in CliState /\ CliIdle.pc = "idle" /\ CliIdle.new = FALSE
  /\ CliIdle.copy = NoAccount
BY NoAccountType DEF IpcIdle, LoopIdle, CliIdle, IpcState, LoopState, CliState

\* The row that clearVaultSession writes.
LEMMA ForgottenRow ==
  ASSUME NEW a \in Account, NEW b, b = ForgetSession(a)
  PROVE  /\ b \in Account /\ b.email = a.email /\ b.material = a.material
         /\ b.keyId = 0 /\ b.blob.key = 0 /\ b.blob.wrap = 0
BY NoAccountType DEF ForgetSession, NoBlob, Account

LEMMA AccountFields ==
  ASSUME NEW a \in Account
  PROVE  /\ a.email \in User /\ a.material \in User /\ a.keyId \in User
         /\ a.blob.key \in User /\ a.blob.wrap \in Wrap
BY DEF Account

LEMMA NoAccountFields ==
  /\ NoAccount.email = 0 /\ NoAccount.material = 0 /\ NoAccount.keyId = 0
  /\ NoAccount.blob = NoBlob /\ NoAccount.blob.key = 0 /\ NoAccount.blob.wrap = 0
BY DEF NoAccount, NoBlob

\* What the steps that write the row make of it.
LEMMA RowSteps ==
  ASSUME TypeOK
  PROVE  /\ UpsertAccount /\ NoFault =>
              /\ acct' \in Account /\ acct'.email = ipc.user /\ acct'.material = ipc.user
              /\ acct'.keyId = ipc.copy.keyId /\ acct'.blob = ipc.copy.blob
         /\ SaveSession /\ NoFault =>
              /\ acct' \in Account /\ acct'.email = acct.email
              /\ acct'.material = acct.material /\ acct'.keyId = ipc.copy.email
              /\ acct'.blob.key = ipc.user /\ acct'.blob.wrap = ipc.wrap
         /\ acct' = ForgetSession(acct) =>
              /\ acct' \in Account /\ acct'.email = acct.email
              /\ acct'.material = acct.material /\ acct'.keyId = 0
              /\ acct'.blob.key = 0 /\ acct'.blob.wrap = 0
         /\ UnlockOnly => \/ UNCHANGED acct
                          \/ /\ acct'.email = ipc.copy.email /\ acct'.material = cookie
                             /\ acct'.keyId = ipc.copy.keyId /\ acct'.blob = ipc.copy.blob
         /\ SaveSession => NoFault \/ (Fault /\ UNCHANGED acct /\ torn')
         /\ UpsertAccount => NoFault \/ (Fault /\ Answer /\ UNCHANGED acct)
<1> USE DEF TypeOK, IpcState
<1>1. ipc.copy \in Account /\ acct \in Account /\ ipc.copy.email \in User
      BY AccountFields
<1>2. ASSUME UpsertAccount, NoFault
      PROVE  /\ acct' \in Account /\ acct'.email = ipc.user /\ acct'.material = ipc.user
             /\ acct'.keyId = ipc.copy.keyId /\ acct'.blob = ipc.copy.blob
      <2>1. acct' = [ipc.copy EXCEPT !.email = ipc.user, !.material = ipc.user]
            BY <1>2, BoundsAssumption DEF UpsertAccount, NoFault, Fault, boundVars
      <2>2. ipc.copy \in Account /\ ipc.user \in User
            BY <1>1
      <2> HIDE DEF TypeOK, IpcState
      <2> QED BY <2>1, <2>2 DEF Account
<1>3. ASSUME SaveSession, NoFault
      PROVE  /\ acct' \in Account /\ acct'.email = acct.email
             /\ acct'.material = acct.material /\ acct'.keyId = ipc.copy.email
             /\ acct'.blob.key = ipc.user /\ acct'.blob.wrap = ipc.wrap
      <2>1. acct' = [acct EXCEPT !.keyId = ipc.copy.email,
                                 !.blob = [key |-> ipc.user, wrap |-> ipc.wrap]]
            BY <1>3, BoundsAssumption DEF SaveSession, NoFault, Fault, boundVars
      <2>2. /\ acct \in Account /\ ipc.copy.email \in User
            /\ ipc.user \in User /\ ipc.wrap \in Wrap
            BY <1>1
      <2> HIDE DEF TypeOK, IpcState
      <2> QED BY <2>1, <2>2 DEF Account
<1>4. ASSUME acct' = ForgetSession(acct)
      PROVE  /\ acct' \in Account /\ acct'.email = acct.email
             /\ acct'.material = acct.material /\ acct'.keyId = 0
             /\ acct'.blob.key = 0 /\ acct'.blob.wrap = 0
      BY <1>1, <1>4, ForgottenRow
<1>5. /\ SaveSession => NoFault \/ (Fault /\ UNCHANGED acct /\ torn')
      /\ UpsertAccount => NoFault \/ (Fault /\ Answer /\ UNCHANGED acct)
      BY DEF SaveSession, UpsertAccount
<1>6. ASSUME UnlockOnly, acct' # acct
      PROVE  /\ acct'.email = ipc.copy.email /\ acct'.material = cookie
             /\ acct'.keyId = ipc.copy.keyId /\ acct'.blob = ipc.copy.blob
      <2>1. acct' = [ipc.copy EXCEPT !.material = cookie]
            BY <1>6 DEF UnlockOnly
      <2>2. ipc.copy \in Account
            BY <1>1
      <2> HIDE DEF TypeOK, IpcState
      <2> QED BY <2>1, <2>2 DEF Account
<1> QED BY <1>2, <1>3, <1>4, <1>5, <1>6

LEMMA ForgetNothing == ForgetSession(NoAccount) = NoAccount
<1> DEFINE a == ForgetSession(NoAccount)
<1>1. a.email = 0 /\ a.material = 0 /\ a.keyId = 0 /\ a.blob = NoBlob
      BY DEF ForgetSession, NoAccount
<1>2. a \in Account
      BY NoAccountType DEF ForgetSession, Account, NoAccount
<1> HIDE DEF a
<1>3. a = [email |-> a.email, material |-> a.material, keyId |-> a.keyId, blob |-> a.blob]
      BY <1>2 DEF Account
<1>4. a = NoAccount
      BY <1>1, <1>3 DEF NoAccount
<1> QED BY <1>4 DEF a

LEMMA InitIInv == Init => IInv
<1> SUFFICES ASSUME Init PROVE IInv
    OBVIOUS
<1> USE DEF Init, IpcIdle, LoopIdle, CliIdle
<1>1. TypeOK
      <2>1. ipc \in IpcState /\ loop \in LoopState /\ cli \in CliState
            BY NoAccountType DEF IpcState, LoopState, CliState
      <2>2. keyring \in [Users -> Wrap] /\ stored \subseteq [key : User, user : Users]
            BY NoAccountType
      <2>3. commands \in 0..MaxCommands /\ trouble \in 0..MaxTrouble
            BY BoundsAssumption
      <2> QED BY <2>1, <2>2, <2>3, NoAccountType DEF TypeOK
<1>2. Forgotten /\ CopiesFresh /\ KeyStored /\ OneSecret /\ LoggedOut /\ OneUser
      BY DEF Forgotten, CopiesFresh, KeyStored, OneSecret, LoggedOut, OneUser, NoAccount, NoBlob
<1>3. SignedOut /\ KeyFitsAccount /\ SavedSessionOpens
      BY DEF SignedOut, KeyFitsAccount, SavedSessionOpens, NoAccount
<1> QED BY <1>1, <1>2, <1>3 DEF IInv

-----------------------------------------------------------------------------
(***************************************************************************)
(* Every step keeps the types.                                             *)
(***************************************************************************)

LEMMA NextTypeOK ==
  ASSUME TypeOK, Forgotten, [Next]_vars
  PROVE  TypeOK'
<1> USE NoAccountType, IdleTypes, UsersAssumption, BoundsAssumption
    DEF TypeOK, IpcState, LoopState, CliState, IpcAt, LoopAt, CliAt, Goto, Answer, Fault, NoFault,
        diskVars, cliVars, boundVars
<1>1. ASSUME NEW u \in User, NEW c \in {"login", "password", "logout"},
             c = "login" => u \in Users, Request(c, u)
      PROVE  TypeOK'
      <2>1. /\ ipc' \in IpcState /\ loop' \in LoopState
            /\ ipc'.pc \in {"login", "upsert"} => ipc'.user \in Users
            /\ ipc'.pc \in {"store", "save"} => ipc'.copy.email \in Users
            /\ loop'.pc = "load" => loop'.copy.keyId \in Users
            BY <1>1 DEF Request
      <2>2. acct' \in Account /\ cli' \in CliState
            BY <1>1 DEF Request
      <2>3. cookie' \in User /\ keyring' \in [Users -> Wrap] /\ mem' \in User
            BY <1>1 DEF Request
      <2>4. commands' \in 0..MaxCommands /\ trouble' \in 0..MaxTrouble
            BY <1>1 DEF Request
      <2>5. /\ up' \in BOOLEAN /\ out' \in BOOLEAN /\ switched' \in BOOLEAN
            /\ overlap' \in BOOLEAN /\ torn' \in BOOLEAN /\ moved' \in BOOLEAN
            BY <1>1 DEF Request
      <2>6. stored' \subseteq [key : User, user : Users] /\ who' \in User
            BY <1>1 DEF Request
      <2> HIDE DEF IpcState, LoopState, CliState
      <2> QED BY <2>1, <2>2, <2>3, <2>4, <2>5, <2>6
<1>2. CASE Login
      BY <1>2 DEF Login
<1>3. CASE UpsertAccount
      <2>1. /\ ipc' \in IpcState /\ loop' \in LoopState
            /\ ipc'.pc \in {"login", "upsert"} => ipc'.user \in Users
            /\ ipc'.pc \in {"store", "save"} => ipc'.copy.email \in Users
            /\ loop'.pc = "load" => loop'.copy.keyId \in Users
            BY <1>3 DEF UpsertAccount
      <2>2. acct' \in Account /\ cli' \in CliState
            <3>1. acct' \in Account
                  <4>1. NoFault \/ UNCHANGED acct
                        BY <1>3 DEF UpsertAccount
                  <4> HIDE DEF TypeOK, IpcState, NoFault
                  <4> QED BY <1>3, <4>1, RowSteps DEF TypeOK
            <3>2. cli' = cli
                  BY <1>3 DEF UpsertAccount
            <3> QED BY <3>1, <3>2
      <2>3. cookie' \in User /\ keyring' \in [Users -> Wrap] /\ mem' \in User
            BY <1>3 DEF UpsertAccount
      <2>4. commands' \in 0..MaxCommands /\ trouble' \in 0..MaxTrouble
            BY <1>3 DEF UpsertAccount
      <2>5. /\ up' \in BOOLEAN /\ out' \in BOOLEAN /\ switched' \in BOOLEAN
            /\ overlap' \in BOOLEAN /\ torn' \in BOOLEAN /\ moved' \in BOOLEAN
            BY <1>3 DEF UpsertAccount
      <2>6. stored' \subseteq [key : User, user : Users] /\ who' \in User
            BY <1>3 DEF UpsertAccount
      <2> HIDE DEF IpcState, LoopState, CliState
      <2> QED BY <2>1, <2>2, <2>3, <2>4, <2>5, <2>6
<1>4. CASE UnlockOnly
      BY <1>4 DEF UnlockOnly, Account
<1>5. CASE Unlock
      BY <1>5 DEF Unlock, Account
<1>6. CASE DropOldSecret
      BY <1>6 DEF OtherSecretDropped, ToStore, DropOldSecret, User, Wrap, Account
<1>7. CASE StoreSecret
      BY <1>7 DEF StoreSecret
<1>8. CASE SaveSession
      <2>1. /\ ipc' \in IpcState /\ loop' \in LoopState
            /\ ipc'.pc \in {"login", "upsert"} => ipc'.user \in Users
            /\ ipc'.pc \in {"store", "save"} => ipc'.copy.email \in Users
            /\ loop'.pc = "load" => loop'.copy.keyId \in Users
            BY <1>8 DEF SaveSession
      <2>2. acct' \in Account /\ cli' \in CliState
            <3>1. acct' \in Account
                  <4>1. NoFault \/ UNCHANGED acct
                        BY <1>8 DEF SaveSession
                  <4> HIDE DEF TypeOK, IpcState, NoFault
                  <4> QED BY <1>8, <4>1, RowSteps DEF TypeOK
            <3>2. cli' = cli
                  BY <1>8 DEF SaveSession
            <3> QED BY <3>1, <3>2
      <2>3. cookie' \in User /\ keyring' \in [Users -> Wrap] /\ mem' \in User
            BY <1>8 DEF SaveSession
      <2>4. commands' \in 0..MaxCommands /\ trouble' \in 0..MaxTrouble
            BY <1>8 DEF SaveSession
      <2>5. /\ up' \in BOOLEAN /\ out' \in BOOLEAN /\ switched' \in BOOLEAN
            /\ overlap' \in BOOLEAN /\ torn' \in BOOLEAN /\ moved' \in BOOLEAN
            BY <1>8 DEF SaveSession
      <2>6. stored' \subseteq [key : User, user : Users] /\ who' \in User
            BY <1>8 DEF SaveSession
      <2> HIDE DEF IpcState, LoopState, CliState
      <2> QED BY <2>1, <2>2, <2>3, <2>4, <2>5, <2>6
<1>9. CASE Lock
      BY <1>9 DEF Lock
<1>10. CASE DeleteSecret
      BY <1>10 DEF DeleteSecret
<1>11. CASE ClearSession
      <2>1. /\ ipc' \in IpcState /\ loop' \in LoopState
            /\ ipc'.pc \in {"login", "upsert"} => ipc'.user \in Users
            /\ ipc'.pc \in {"store", "save"} => ipc'.copy.email \in Users
            /\ loop'.pc = "load" => loop'.copy.keyId \in Users
            BY <1>11 DEF ClearSession
      <2>2. acct' \in Account /\ cli' \in CliState
            <3>1. acct' \in Account
                  <4>1. acct' = ForgetSession(acct) \/ UNCHANGED acct
                        BY <1>11 DEF ClearSession
                  <4> HIDE DEF TypeOK, IpcState, NoFault
                  <4> QED BY <1>11, <4>1, RowSteps DEF TypeOK
            <3>2. cli' = cli
                  BY <1>11 DEF ClearSession
            <3> QED BY <3>1, <3>2
      <2>3. cookie' \in User /\ keyring' \in [Users -> Wrap] /\ mem' \in User
            BY <1>11 DEF ClearSession
      <2>4. commands' \in 0..MaxCommands /\ trouble' \in 0..MaxTrouble
            BY <1>11 DEF ClearSession
      <2>5. /\ up' \in BOOLEAN /\ out' \in BOOLEAN /\ switched' \in BOOLEAN
            /\ overlap' \in BOOLEAN /\ torn' \in BOOLEAN /\ moved' \in BOOLEAN
            BY <1>11 DEF ClearSession
      <2>6. stored' \subseteq [key : User, user : Users] /\ who' \in User
            BY <1>11 DEF ClearSession
      <2> HIDE DEF IpcState, LoopState, CliState
      <2> QED BY <2>1, <2>2, <2>3, <2>4, <2>5, <2>6
<1>12. CASE SignOut
      BY <1>12 DEF SignOut
<1>13. CASE ClearAccount
      <2>1. /\ ipc' \in IpcState /\ loop' \in LoopState
            /\ ipc'.pc \in {"login", "upsert"} => ipc'.user \in Users
            /\ ipc'.pc \in {"store", "save"} => ipc'.copy.email \in Users
            /\ loop'.pc = "load" => loop'.copy.keyId \in Users
            BY <1>13 DEF ClearAccount
      <2>2. acct' \in Account /\ cli' \in CliState
            BY <1>13 DEF ClearAccount
      <2>3. cookie' \in User /\ keyring' \in [Users -> Wrap] /\ mem' \in User
            BY <1>13 DEF ClearAccount
      <2>4. commands' \in 0..MaxCommands /\ trouble' \in 0..MaxTrouble
            BY <1>13 DEF ClearAccount
      <2>5. /\ up' \in BOOLEAN /\ out' \in BOOLEAN /\ switched' \in BOOLEAN
            /\ overlap' \in BOOLEAN /\ torn' \in BOOLEAN /\ moved' \in BOOLEAN
            BY <1>13 DEF ClearAccount
      <2>6. stored' \subseteq [key : User, user : Users] /\ who' \in User
            BY <1>13 DEF ClearAccount
      <2> HIDE DEF IpcState, LoopState, CliState
      <2> QED BY <2>1, <2>2, <2>3, <2>4, <2>5, <2>6
<1>14. CASE NeedKey
      <2>1. loop' \in LoopState /\ (loop'.pc = "load" => loop'.copy.keyId \in Users)
            <3>1. acct.keyId \in User
                  BY DEF Account
            <3> QED BY <1>14, <3>1 DEF NeedKey, User
      <2> QED BY <1>14, <2>1 DEF NeedKey
<1>15. CASE LoadSecret
      <2>1. ForgetSession(acct) \in Account
            BY DEF ForgetSession, Account, NoBlob
      <2>2. loop' \in LoopState /\ loop'.pc # "load"
            BY <1>15 DEF LoadSecret
      <2> QED BY <1>15, <2>1, <2>2 DEF LoadSecret
<1>16. CASE InstallKey
      BY <1>16 DEF InstallKey, Account
<1>17. CASE TakeKey
      <2>1. /\ ipc' \in IpcState /\ loop' \in LoopState
            /\ ipc'.pc \in {"login", "upsert"} => ipc'.user \in Users
            /\ ipc'.pc \in {"store", "save"} => ipc'.copy.email \in Users
            /\ loop'.pc = "load" => loop'.copy.keyId \in Users
            BY <1>17 DEF TakeKey
      <2>2. acct' \in Account /\ cli' \in CliState
            BY <1>17 DEF TakeKey
      <2>3. cookie' \in User /\ keyring' \in [Users -> Wrap] /\ mem' \in User
            BY <1>17 DEF TakeKey
      <2>4. commands' \in 0..MaxCommands /\ trouble' \in 0..MaxTrouble
            BY <1>17 DEF TakeKey
      <2>5. /\ up' \in BOOLEAN /\ out' \in BOOLEAN /\ switched' \in BOOLEAN
            /\ overlap' \in BOOLEAN /\ torn' \in BOOLEAN /\ moved' \in BOOLEAN
            BY <1>17 DEF TakeKey
      <2>6. stored' \subseteq [key : User, user : Users] /\ who' \in User
            BY <1>17 DEF TakeKey
      <2> HIDE DEF IpcState, LoopState, CliState
      <2> QED BY <2>1, <2>2, <2>3, <2>4, <2>5, <2>6
<1>18. CASE Send
      <2>1. cookie # 0 => [key |-> loop.got, user |-> cookie] \in [key : User, user : Users]
            BY <1>18 DEF Send, Forgotten, User
      <2> QED BY <1>18, <2>1 DEF Send
<1>19. CASE Crash
      <2>1. torn' \in BOOLEAN
            BY <1>19 DEF Crash
      <2>2. trouble' \in 0..MaxTrouble /\ commands' \in 0..MaxCommands
            BY <1>19 DEF Crash
      <2>3. /\ ipc' \in IpcState /\ loop' \in LoopState
            /\ ipc'.pc = "idle" /\ loop'.pc = "idle"
            BY <1>19 DEF Crash
      <2>4. cookie' \in User /\ acct' \in Account /\ keyring' \in [Users -> Wrap]
            BY <1>19 DEF Crash
      <2>5. up' \in BOOLEAN /\ mem' \in User /\ who' \in User
            BY <1>19 DEF Crash
      <2>6. stored' \subseteq [key : User, user : Users]
            BY <1>19 DEF Crash
      <2>7. /\ out' \in BOOLEAN /\ switched' \in BOOLEAN /\ overlap' \in BOOLEAN
            /\ cli' \in CliState /\ moved' \in BOOLEAN
            BY <1>19 DEF Crash
      <2> QED BY <2>1, <2>2, <2>3, <2>4, <2>5, <2>6, <2>7
<1>20. CASE Boot
      <2>1. /\ ipc' \in IpcState /\ loop' \in LoopState
            /\ ipc'.pc \in {"login", "upsert"} => ipc'.user \in Users
            /\ ipc'.pc \in {"store", "save"} => ipc'.copy.email \in Users
            /\ loop'.pc = "load" => loop'.copy.keyId \in Users
            BY <1>20 DEF Boot
      <2>2. acct' \in Account /\ cli' \in CliState
            BY <1>20 DEF Boot
      <2>3. cookie' \in User /\ keyring' \in [Users -> Wrap] /\ mem' \in User
            BY <1>20 DEF Boot
      <2>4. commands' \in 0..MaxCommands /\ trouble' \in 0..MaxTrouble
            BY <1>20 DEF Boot
      <2>5. /\ up' \in BOOLEAN /\ out' \in BOOLEAN /\ switched' \in BOOLEAN
            /\ overlap' \in BOOLEAN /\ torn' \in BOOLEAN /\ moved' \in BOOLEAN
            BY <1>20 DEF Boot
      <2>6. stored' \subseteq [key : User, user : Users] /\ who' \in User
            BY <1>20 DEF Boot
      <2> HIDE DEF IpcState, LoopState, CliState
      <2> QED BY <2>1, <2>2, <2>3, <2>4, <2>5, <2>6
<1>21. CASE SetBaseUrl \/ ClearOldSession \/ WriteBaseUrl
      <2>1. CASE SetBaseUrl
            <3>1. /\ ipc' \in IpcState /\ loop' \in LoopState
                  /\ ipc'.pc \in {"login", "upsert"} => ipc'.user \in Users
                  /\ ipc'.pc \in {"store", "save"} => ipc'.copy.email \in Users
                  /\ loop'.pc = "load" => loop'.copy.keyId \in Users
                  BY <2>1 DEF SetBaseUrl
            <3>2. acct' \in Account /\ cli' \in CliState
                  <4>1. CASE cli' = [pc |-> "upsert", new |-> FALSE, copy |-> acct]
                        BY <2>1, <4>1 DEF SetBaseUrl
                  <4>2. CASE cli' = [pc |-> "upsert", new |-> TRUE, copy |-> NoAccount]
                        BY <2>1, <4>2 DEF SetBaseUrl
                  <4>3. CASE cli' = [pc |-> "clear", new |-> TRUE, copy |-> NoAccount]
                        BY <2>1, <4>3 DEF SetBaseUrl
                  <4> QED BY <2>1, <4>1, <4>2, <4>3 DEF SetBaseUrl
            <3>3. cookie' \in User /\ keyring' \in [Users -> Wrap] /\ mem' \in User
                  BY <2>1 DEF SetBaseUrl
            <3>4. commands' \in 0..MaxCommands /\ trouble' \in 0..MaxTrouble
                  BY <2>1 DEF SetBaseUrl
            <3>5. /\ up' \in BOOLEAN /\ out' \in BOOLEAN /\ switched' \in BOOLEAN
                  /\ overlap' \in BOOLEAN /\ torn' \in BOOLEAN /\ moved' \in BOOLEAN
                  BY <2>1 DEF SetBaseUrl
            <3>6. stored' \subseteq [key : User, user : Users] /\ who' \in User
                  BY <2>1 DEF SetBaseUrl
            <3> HIDE DEF IpcState, LoopState, CliState
            <3> QED BY <3>1, <3>2, <3>3, <3>4, <3>5, <3>6
      <2>2. CASE ClearOldSession
            <3>1. ForgetSession(acct) \in Account
                  BY DEF ForgetSession, Account, NoBlob
            <3> QED BY <2>2, <3>1 DEF ClearOldSession
      <2>3. CASE WriteBaseUrl
            <3>1. /\ ipc' \in IpcState /\ loop' \in LoopState
                  /\ ipc'.pc \in {"login", "upsert"} => ipc'.user \in Users
                  /\ ipc'.pc \in {"store", "save"} => ipc'.copy.email \in Users
                  /\ loop'.pc = "load" => loop'.copy.keyId \in Users
                  BY <2>3 DEF WriteBaseUrl
            <3>2. acct' \in Account /\ cli' \in CliState
                  BY <2>3 DEF WriteBaseUrl
            <3>3. cookie' \in User /\ keyring' \in [Users -> Wrap] /\ mem' \in User
                  BY <2>3 DEF WriteBaseUrl
            <3>4. commands' \in 0..MaxCommands /\ trouble' \in 0..MaxTrouble
                  BY <2>3 DEF WriteBaseUrl
            <3>5. /\ up' \in BOOLEAN /\ out' \in BOOLEAN /\ switched' \in BOOLEAN
                  /\ overlap' \in BOOLEAN /\ torn' \in BOOLEAN /\ moved' \in BOOLEAN
                  BY <2>3 DEF WriteBaseUrl
            <3>6. stored' \subseteq [key : User, user : Users] /\ who' \in User
                  BY <2>3 DEF WriteBaseUrl
            <3> HIDE DEF IpcState, LoopState, CliState
            <3> QED BY <3>1, <3>2, <3>3, <3>4, <3>5, <3>6
      <2> QED BY <1>21, <2>1, <2>2, <2>3
<1>22. CASE UNCHANGED vars
      BY <1>22 DEF vars
<1> HIDE DEF TypeOK
<1> QED BY <1>1, <1>2, <1>3, <1>4, <1>5, <1>6, <1>7, <1>8, <1>9, <1>10, <1>11,
           <1>12, <1>13, <1>14, <1>15, <1>16, <1>17, <1>18, <1>19, <1>20, <1>21,
           <1>22 DEF Next, User

-----------------------------------------------------------------------------
(***************************************************************************)
(* The other parts of the invariant, each from those it rests on.  Actions *)
(* that cannot disturb a part are taken together.                          *)
(***************************************************************************)

\* Threads forget what they are done with, and a process all.
LEMMA NextForgotten ==
  ASSUME TypeOK, Forgotten, [Next]_vars
  PROVE  Forgotten'
<1> USE IdleTypes
    DEF TypeOK, IpcState, LoopState, CliState, IpcAt, LoopAt, CliAt, Goto, Answer, Fault, NoFault,
        diskVars, cliVars, boundVars, Forgotten, User
<1>1. ASSUME NEW u \in User, NEW c \in {"login", "password", "logout"},
             c = "login" => u \in Users, Request(c, u)
      PROVE  Forgotten'
      BY <1>1 DEF Request
<1>2. CASE TakeKey
      BY <1>2 DEF TakeKey
<1>3. CASE Crash
      BY <1>3 DEF Crash
<1>4. CASE Login \/ UpsertAccount \/ UnlockOnly \/ Unlock \/ DropOldSecret \/
           StoreSecret \/ SaveSession \/ Lock \/ DeleteSecret \/ ClearSession \/
           SignOut \/ ClearAccount
      BY <1>4 DEF Login, UpsertAccount, UnlockOnly, Unlock, DropOldSecret,
                  OtherSecretDropped, ToStore, StoreSecret, SaveSession, Lock,
                  DeleteSecret, ClearSession, ForgetSession, SignOut, ClearAccount
<1>5. CASE NeedKey \/ LoadSecret \/ InstallKey \/ Send
      BY <1>5 DEF NeedKey, LoadSecret, ForgetSession, InstallKey, Send
<1>6. CASE Boot \/ SetBaseUrl \/ ClearOldSession \/ WriteBaseUrl
      BY <1>6 DEF Boot, SetBaseUrl, ClearOldSession, WriteBaseUrl, ForgetSession
<1>7. CASE UNCHANGED vars
      BY <1>7 DEF vars
<1> HIDE DEF Forgotten
<1> QED BY <1>1, <1>2, <1>3, <1>4, <1>5, <1>6, <1>7 DEF Next, User

\* As long as commands and loop do not meet, copies are up to date.
LEMMA NextCopiesFresh ==
  ASSUME TypeOK, Forgotten, CopiesFresh, [Next]_vars
  PROVE  CopiesFresh'
<1> USE IdleTypes
    DEF TypeOK, IpcState, LoopState, CliState, IpcAt, LoopAt, CliAt, Goto, Answer, Fault, NoFault,
        diskVars, cliVars, boundVars, Forgotten, CopiesFresh, AfterLock
<1>1. ASSUME NEW u \in User, NEW c \in {"login", "password", "logout"},
             c = "login" => u \in Users, Request(c, u)
      PROVE  CopiesFresh'
      BY <1>1 DEF Request
<1>2. CASE Login
      BY <1>2 DEF Login
<1>3. CASE UnlockOnly
      BY <1>3 DEF UnlockOnly
<1>4. CASE Lock
      BY <1>4 DEF Lock
<1>5. CASE NeedKey
      BY <1>5 DEF NeedKey
<1>6. CASE InstallKey
      BY <1>6 DEF InstallKey
<1>7. CASE UpsertAccount \/ Unlock \/ DropOldSecret \/ StoreSecret \/ SaveSession \/
           DeleteSecret \/ ClearSession \/ SignOut \/ ClearAccount
      BY <1>7 DEF UpsertAccount, Unlock, DropOldSecret, OtherSecretDropped, ToStore,
                  StoreSecret, SaveSession, DeleteSecret, ClearSession,
                  ForgetSession, SignOut, ClearAccount
<1>8. CASE LoadSecret \/ TakeKey \/ Send
      BY <1>8 DEF LoadSecret, ForgetSession, TakeKey, Send
<1>9. CASE Crash \/ Boot \/ SetBaseUrl \/ ClearOldSession \/ WriteBaseUrl
      <2>1. CASE Crash
            BY <2>1 DEF Crash
      <2>2. CASE Boot
            BY <2>2 DEF Boot
      <2>3. CASE SetBaseUrl
            BY <2>3 DEF SetBaseUrl
      <2>4. CASE ClearOldSession
            BY <2>4 DEF ClearOldSession
      <2>5. CASE WriteBaseUrl
            BY <2>5 DEF WriteBaseUrl
      <2> QED BY <1>9, <2>1, <2>2, <2>3, <2>4, <2>5
<1>10. CASE UNCHANGED vars
      BY <1>10 DEF vars
<1> HIDE DEF CopiesFresh
<1> QED BY <1>1, <1>2, <1>3, <1>4, <1>5, <1>6, <1>7, <1>8, <1>9, <1>10 DEF Next, User

\* Nothing comes between storing a key and saving its blob.
LEMMA NextKeyStored ==
  ASSUME TypeOK, Forgotten, CopiesFresh, KeyStored, [Next]_vars
  PROVE  KeyStored'
<1> USE IdleTypes
    DEF TypeOK, IpcState, LoopState, CliState, IpcAt, LoopAt, CliAt, Goto, Answer, Fault, NoFault,
        diskVars, cliVars, boundVars, Forgotten, CopiesFresh, KeyStored
<1>1. ASSUME NEW u \in User, NEW c \in {"login", "password", "logout"},
             c = "login" => u \in Users, Request(c, u)
      PROVE  KeyStored'
      BY <1>1 DEF Request
<1>2. CASE StoreSecret
      BY <1>2 DEF StoreSecret
<1>3. CASE SaveSession
      <2>1. CASE NoFault
            BY <1>3, <2>1, UsersAssumption DEF SaveSession
      <2>2. CASE Fault /\ Answer
            BY <1>3, <2>2, UsersAssumption DEF SaveSession
      <2> QED BY <1>3, <2>1, <2>2 DEF SaveSession
<1>4. CASE SetBaseUrl \/ ClearOldSession \/ WriteBaseUrl
      <2>1. CASE SetBaseUrl
            BY <2>1 DEF SetBaseUrl
      <2>2. CASE ClearOldSession
            BY <2>2, ForgetNothing DEF ClearOldSession, ForgetSession
      <2>3. CASE WriteBaseUrl
            BY <2>3 DEF WriteBaseUrl
      <2> QED BY <1>4, <2>1, <2>2, <2>3
<1>5. CASE Login \/ UpsertAccount \/ UnlockOnly \/ Unlock \/ DropOldSecret \/ Lock
           \/ DeleteSecret \/ ClearSession \/ SignOut \/ ClearAccount
      BY <1>5 DEF Login, UpsertAccount, UnlockOnly, Unlock, DropOldSecret,
                  OtherSecretDropped, ToStore, Lock, DeleteSecret, ClearSession,
                  ForgetSession, SignOut, ClearAccount
<1>6. CASE NeedKey \/ LoadSecret \/ InstallKey \/ TakeKey \/ Send
      BY <1>6 DEF NeedKey, LoadSecret, ForgetSession, InstallKey, TakeKey, Send
<1>7. CASE Crash \/ Boot
      BY <1>7 DEF Crash, Boot
<1>8. CASE UNCHANGED vars
      BY <1>8 DEF vars
<1> HIDE DEF KeyStored
<1> QED BY <1>1, <1>2, <1>3, <1>4, <1>5, <1>6, <1>7, <1>8 DEF Next, User

\* The cookies are gone before the account is.
LEMMA NextSignedOut ==
  ASSUME TypeOK, Forgotten, SignedOut, [Next]_vars
  PROVE  SignedOut'
<1> USE IdleTypes
    DEF TypeOK, IpcState, LoopState, CliState, IpcAt, LoopAt, CliAt, Goto, Answer, Fault, NoFault,
        diskVars, cliVars, boundVars, Forgotten, SignedOut
<1>1. ASSUME NEW u \in User, NEW c \in {"login", "password", "logout"},
             c = "login" => u \in Users, Request(c, u)
      PROVE  SignedOut'
      BY <1>1 DEF Request
<1>2. CASE SignOut
      BY <1>2 DEF SignOut
<1>3. CASE Login \/ UpsertAccount \/ UnlockOnly \/ Unlock \/ DropOldSecret \/
           StoreSecret \/ SaveSession \/ Lock \/ DeleteSecret \/ ClearSession \/
           ClearAccount
      BY <1>3 DEF Login, UpsertAccount, UnlockOnly, Unlock, DropOldSecret,
                  OtherSecretDropped, ToStore, StoreSecret, SaveSession, Lock,
                  DeleteSecret, ClearSession, ForgetSession, ClearAccount
<1>4. CASE NeedKey \/ LoadSecret \/ InstallKey \/ TakeKey \/ Send
      BY <1>4 DEF NeedKey, LoadSecret, ForgetSession, InstallKey, TakeKey, Send
<1>5. CASE Crash \/ Boot \/ SetBaseUrl \/ ClearOldSession \/ WriteBaseUrl
      BY <1>5 DEF Crash, Boot, SetBaseUrl, ClearOldSession, WriteBaseUrl, ForgetSession
<1>6. CASE UNCHANGED vars
      BY <1>6 DEF vars
<1> HIDE DEF SignedOut
<1> QED BY <1>1, <1>2, <1>3, <1>4, <1>5, <1>6 DEF Next, User

\* The keyring holds the key of the row's session and no other.
LEMMA NextOneSecret ==
  ASSUME TypeOK, Forgotten, CopiesFresh, OneSecret, [Next]_vars
  PROVE  OneSecret'
<1> USE UsersAssumption, IdleTypes, AccountFields, NoAccountFields, NoAccountType, RowSteps
    DEF TypeOK, IpcState, LoopState, CliState, IpcAt, LoopAt, CliAt, Goto, Answer, Fault, NoFault,
        diskVars, cliVars, boundVars, Forgotten, CopiesFresh, OneSecret,
        User
<1>1. ASSUME NEW u \in User, NEW c \in {"login", "password", "logout"},
             c = "login" => u \in Users, Request(c, u)
      PROVE  OneSecret'
      BY <1>1 DEF Request
<1>2. CASE UpsertAccount
      <2>1. CASE NoFault
            BY <1>2, <2>1, UsersAssumption DEF UpsertAccount
      <2>2. CASE Fault /\ Answer
            BY <1>2, <2>2, UsersAssumption DEF UpsertAccount
      <2> QED BY <1>2, <2>1, <2>2 DEF UpsertAccount
<1>3. CASE UnlockOnly
      BY <1>3 DEF UnlockOnly
<1>4. CASE DropOldSecret
      BY <1>4 DEF DropOldSecret, OtherSecretDropped, ToStore
<1>5. CASE StoreSecret
      BY <1>5 DEF StoreSecret
<1>6. CASE SaveSession
      <2>1. CASE NoFault
            <3>1. acct'.keyId = ipc.copy.email
                  <4> HIDE DEF TypeOK, NoFault
                  <4> QED BY <1>6, <2>1, RowSteps
            <3>2. ipc' = IpcIdle /\ keyring' = keyring /\ ipc.pc = "save" /\ cli' = cli
                  BY <1>6 DEF SaveSession
            <3>3. ~overlap' /\ ~torn' => ~overlap /\ ~torn
                  BY <1>6 DEF SaveSession
            <3> QED BY <3>1, <3>2, <3>3
      <2>2. CASE Fault /\ Answer
            BY <1>6, <2>2, UsersAssumption DEF SaveSession
      <2> QED BY <1>6, <2>1, <2>2 DEF SaveSession
<1>7. CASE DeleteSecret
      BY <1>7 DEF DeleteSecret
<1>8. CASE ClearSession
      <2>1. CASE NoFault
            BY <1>8, <2>1, UsersAssumption DEF ClearSession
      <2>2. CASE Fault /\ Answer
            BY <1>8, <2>2, UsersAssumption DEF ClearSession
      <2> QED BY <1>8, <2>1, <2>2 DEF ClearSession
<1>9. CASE ClearAccount
      <2>1. CASE NoFault
            BY <1>9, <2>1, UsersAssumption DEF ClearAccount
      <2>2. CASE Fault /\ Answer
            BY <1>9, <2>2, UsersAssumption DEF ClearAccount
      <2> QED BY <1>9, <2>1, <2>2 DEF ClearAccount
<1>10. CASE LoadSecret
      BY <1>10 DEF LoadSecret
<1>11. CASE Crash
      BY <1>11 DEF Crash
<1>12. CASE SetBaseUrl \/ ClearOldSession \/ WriteBaseUrl
      <2>1. CASE SetBaseUrl
            BY <2>1 DEF SetBaseUrl
      <2>2. CASE ClearOldSession
            BY <2>2, ForgetNothing DEF ClearOldSession
      <2>3. CASE WriteBaseUrl
            BY <2>3 DEF WriteBaseUrl
      <2> QED BY <1>12, <2>1, <2>2, <2>3
<1>13. CASE Login \/ Unlock \/ Lock \/ SignOut
      BY <1>13 DEF Login, Unlock, Lock, SignOut
<1>14. CASE NeedKey \/ InstallKey \/ TakeKey \/ Send
      BY <1>14 DEF NeedKey, InstallKey, TakeKey, Send
<1>15. CASE Boot
      BY <1>15 DEF Boot
<1>16. CASE UNCHANGED vars
      BY <1>16 DEF vars
<1> HIDE DEF OneSecret
<1> QED BY <1>1, <1>2, <1>3, <1>4, <1>5, <1>6, <1>7, <1>8, <1>9, <1>10, <1>11,
           <1>12, <1>13, <1>14, <1>15, <1>16 DEF Next, User

\* After a logout nothing comes back by itself.
LEMMA NextLoggedOut ==
  ASSUME TypeOK, Forgotten, CopiesFresh, OneSecret, LoggedOut, [Next]_vars
  PROVE  LoggedOut'
<1> USE UsersAssumption, IdleTypes
    DEF TypeOK, IpcState, LoopState, CliState, IpcAt, LoopAt, CliAt, Goto, Answer, Fault, NoFault,
        diskVars, cliVars, boundVars, Forgotten, CopiesFresh, OneSecret, LoggedOut, AfterLock
<1>1. ASSUME NEW u \in User, NEW c \in {"login", "password", "logout"},
             c = "login" => u \in Users, Request(c, u)
      PROVE  LoggedOut'
      BY <1>1 DEF Request
<1>2. CASE ClearAccount
      <2>1. CASE NoFault
            BY <1>2, <2>1, UsersAssumption DEF ClearAccount
      <2>2. CASE Fault /\ Answer
            BY <1>2, <2>2, UsersAssumption DEF ClearAccount
      <2> QED BY <1>2, <2>1, <2>2 DEF ClearAccount
<1>3. CASE NeedKey
      BY <1>3, NoAccountType DEF NeedKey, NoAccount
<1>4. CASE LoadSecret
      BY <1>4, ForgetNothing DEF LoadSecret
<1>5. CASE InstallKey
      BY <1>5 DEF InstallKey
<1>6. CASE Crash
      BY <1>6 DEF Crash
<1>7. CASE SetBaseUrl \/ ClearOldSession \/ WriteBaseUrl
      <2>1. CASE SetBaseUrl
            BY <2>1 DEF SetBaseUrl
      <2>2. CASE ClearOldSession
            BY <2>2, ForgetNothing DEF ClearOldSession, ForgetSession
      <2>3. CASE WriteBaseUrl
            BY <2>3 DEF WriteBaseUrl
      <2> QED BY <1>7, <2>1, <2>2, <2>3
<1>8. CASE Login \/ UpsertAccount \/ UnlockOnly \/ Unlock \/ DropOldSecret \/
           StoreSecret \/ SaveSession \/ Lock \/ DeleteSecret \/ ClearSession \/
           SignOut
      BY <1>8 DEF Login, UpsertAccount, UnlockOnly, Unlock, DropOldSecret,
                  OtherSecretDropped, ToStore, StoreSecret, SaveSession, Lock,
                  DeleteSecret, ClearSession, ForgetSession, SignOut
<1>9. CASE TakeKey \/ Send
      BY <1>9 DEF TakeKey, Send
<1>10. CASE Boot
      BY <1>10 DEF Boot
<1>11. CASE UNCHANGED vars
      BY <1>11 DEF vars
<1> HIDE DEF LoggedOut
<1> QED BY <1>1, <1>2, <1>3, <1>4, <1>5, <1>6, <1>7, <1>8, <1>9, <1>10, <1>11 DEF Next, User

\* Without a change of users everything is of one user.
LEMMA NextOneUser ==
  ASSUME TypeOK, Forgotten, CopiesFresh, SignedOut, OneUser, [Next]_vars
  PROVE  OneUser'
<1> USE UsersAssumption, IdleTypes, AccountFields, NoAccountFields, NoAccountType, RowSteps
    DEF TypeOK, IpcState, LoopState, CliState, IpcAt, LoopAt, CliAt, Goto, Answer, Fault, NoFault,
        diskVars, cliVars, boundVars, Forgotten, CopiesFresh, SignedOut, OneUser, AfterLock,
        IpcIdle, LoopIdle, User
<1>1. ASSUME NEW u \in User, NEW c \in {"login", "password", "logout"},
             c = "login" => u \in Users, Request(c, u)
      PROVE  OneUser'
      BY <1>1 DEF Request
<1>2. CASE Login
      <2> SUFFICES ASSUME ~overlap', ~switched' PROVE OneUser'
          OBVIOUS
      <2>1. ~overlap /\ ~switched /\ who \in {0, ipc.user} /\ who' = ipc.user
            BY <1>2 DEF Login
      <2>2. /\ UNCHANGED <<acct, mem, loop, cli>> /\ cookie' \in {cookie, ipc.user}
            /\ ipc'.pc \in {"upsert", "idle"} /\ ipc'.user \in {0, ipc.user}
            /\ ipc'.copy \in {NoAccount, ipc.copy}
            /\ ipc'.pc = "upsert" => ipc'.user = ipc.user
            /\ loop.pc = "idle"
            BY <1>2, <2>1 DEF Login
      <2> QED BY <2>1, <2>2
<1>3. CASE UpsertAccount
      <2>1. CASE NoFault
            BY <1>3, <2>1, UsersAssumption DEF UpsertAccount
      <2>2. CASE Fault /\ Answer
            BY <1>3, <2>2, UsersAssumption DEF UpsertAccount
      <2> QED BY <1>3, <2>1, <2>2 DEF UpsertAccount
<1>4. CASE UnlockOnly
      BY <1>4 DEF UnlockOnly
<1>5. CASE Unlock
      BY <1>5 DEF Unlock
<1>6. CASE DropOldSecret
      BY <1>6 DEF DropOldSecret, OtherSecretDropped, ToStore
<1>7. CASE StoreSecret
      BY <1>7 DEF StoreSecret
<1>8. CASE SaveSession
      <2>1. CASE NoFault
            BY <1>8, <2>1, UsersAssumption DEF SaveSession
      <2>2. CASE Fault /\ Answer
            BY <1>8, <2>2, UsersAssumption DEF SaveSession
      <2> QED BY <1>8, <2>1, <2>2 DEF SaveSession
<1>9. CASE DeleteSecret
      BY <1>9 DEF DeleteSecret
<1>10. CASE ClearSession
      <2>1. CASE NoFault
            BY <1>10, <2>1, UsersAssumption DEF ClearSession
      <2>2. CASE Fault /\ Answer
            BY <1>10, <2>2, UsersAssumption DEF ClearSession
      <2> QED BY <1>10, <2>1, <2>2 DEF ClearSession
<1>11. CASE SignOut
      BY <1>11 DEF SignOut
<1>12. CASE ClearAccount
      <2>1. CASE NoFault
            BY <1>12, <2>1, UsersAssumption DEF ClearAccount
      <2>2. CASE Fault /\ Answer
            BY <1>12, <2>2, UsersAssumption DEF ClearAccount
      <2> QED BY <1>12, <2>1, <2>2 DEF ClearAccount
<1>13. CASE NeedKey
      <2>1. /\ UNCHANGED <<cookie, acct, mem, ipc, cli, who, switched>>
            /\ loop'.copy \in {loop.copy, acct} /\ loop'.pc # "send"
            /\ ~overlap' => ~overlap
            BY <1>13 DEF NeedKey
      <2> QED BY <2>1
<1>14. CASE LoadSecret
      <2>0. loop' = LoopIdle \/ (loop'.pc = "install" /\ loop'.copy = loop.copy)
            BY <1>14 DEF LoadSecret
      <2>1. /\ UNCHANGED <<cookie, mem, ipc, cli, who, switched>>
            /\ loop'.copy \in {loop.copy, NoAccount} /\ loop'.pc # "send"
            /\ ~overlap' => ~overlap
            /\ acct' = acct \/ acct' = ForgetSession(acct)
            <3>1. UNCHANGED <<cookie, mem, ipc, cli, who, switched>> /\ (~overlap' => ~overlap)
                  BY <1>14 DEF LoadSecret
            <3>2. acct' = acct \/ acct' = ForgetSession(acct)
                  BY <1>14 DEF LoadSecret
            <3>3. loop'.copy \in {loop.copy, NoAccount} /\ loop'.pc # "send"
                  BY <2>0
            <3> QED BY <3>1, <3>2, <3>3
      <2>2. /\ acct'.material = acct.material
            /\ acct'.blob.key \in {0, acct.blob.key}
            BY <2>1, RowSteps
      <2> QED BY <2>1, <2>2
<1>15. CASE InstallKey
      BY <1>15 DEF InstallKey
<1>16. CASE TakeKey
      BY <1>16 DEF TakeKey
<1>17. CASE Send
      BY <1>17 DEF Send
<1>18. CASE Crash
      BY <1>18 DEF Crash
<1>19. CASE SetBaseUrl \/ ClearOldSession \/ WriteBaseUrl
      <2>1. CASE SetBaseUrl
            BY <2>1 DEF SetBaseUrl
      <2>2. CASE ClearOldSession
            BY <2>2, ForgetNothing DEF ClearOldSession
      <2>3. CASE WriteBaseUrl
            BY <2>3 DEF WriteBaseUrl
      <2> QED BY <1>19, <2>1, <2>2, <2>3
<1>20. CASE Lock
      BY <1>20 DEF Lock
<1>21. CASE Boot
      <2>1. /\ UNCHANGED <<acct, mem, ipc, loop, cli, switched, overlap>> /\ mem = 0
            /\ ipc = IpcIdle /\ loop = LoopIdle /\ cookie' \in {0, cookie}
            /\ who' = who \/ (who' = 0 /\ acct = NoAccount /\ cookie' = 0)
            BY <1>21 DEF Boot
      <2>2. CASE who' = who
            BY <2>1, <2>2
      <2>3. CASE who' = 0 /\ acct = NoAccount /\ cookie' = 0
            <3>1. ~overlap => cli.copy = NoAccount
                  <4>1. cli.pc = "clear" => cli.copy = NoAccount
                        OBVIOUS
                  <4>2. cli.pc = "upsert" /\ ~overlap => cli.copy = NoAccount
                        BY <2>3
                  <4>3. cli.pc = "idle" => cli.copy = NoAccount
                        OBVIOUS
                  <4> QED BY <4>1, <4>2, <4>3
            <3> QED BY <2>1, <2>3, <3>1
      <2> QED BY <2>1, <2>2, <2>3
<1>22. CASE UNCHANGED vars
      BY <1>22 DEF vars
<1> HIDE DEF OneUser
<1> QED BY <1>1, <1>2, <1>3, <1>4, <1>5, <1>6, <1>7, <1>8, <1>9, <1>10, <1>11,
           <1>12, <1>13, <1>14, <1>15, <1>16, <1>17, <1>18, <1>19, <1>20, <1>21,
           <1>22 DEF Next, User

\* What is sent is encrypted under the key of the account it goes to.
LEMMA NextKeyFitsAccount ==
  ASSUME TypeOK, Forgotten, OneUser, KeyFitsAccount, [Next]_vars
  PROVE  KeyFitsAccount'
<1> USE UsersAssumption, IdleTypes
    DEF TypeOK, IpcState, LoopState, CliState, IpcAt, LoopAt, CliAt, Goto, Answer, Fault, NoFault,
        diskVars, cliVars, boundVars, Forgotten, OneUser, KeyFitsAccount
<1>1. ASSUME NEW u \in User, NEW c \in {"login", "password", "logout"},
             c = "login" => u \in Users, Request(c, u)
      PROVE  KeyFitsAccount'
      BY <1>1 DEF Request
<1>2. CASE Login
      BY <1>2 DEF Login
<1>3. CASE Send
      BY <1>3 DEF Send
<1>4. CASE UpsertAccount \/ UnlockOnly \/ Unlock \/ DropOldSecret \/ StoreSecret \/
           SaveSession \/ Lock \/ DeleteSecret \/ ClearSession \/ SignOut \/
           ClearAccount
      BY <1>4 DEF UpsertAccount, UnlockOnly, Unlock, DropOldSecret,
                  OtherSecretDropped, ToStore, StoreSecret, SaveSession, Lock,
                  DeleteSecret, ClearSession, ForgetSession, SignOut, ClearAccount
<1>5. CASE NeedKey \/ LoadSecret \/ InstallKey \/ TakeKey
      BY <1>5 DEF NeedKey, LoadSecret, ForgetSession, InstallKey, TakeKey
<1>6. CASE Crash \/ Boot \/ SetBaseUrl \/ ClearOldSession \/ WriteBaseUrl
      BY <1>6 DEF Crash, Boot, SetBaseUrl, ClearOldSession, WriteBaseUrl, ForgetSession
<1>7. CASE UNCHANGED vars
      BY <1>7 DEF vars
<1> HIDE DEF KeyFitsAccount
<1> QED BY <1>1, <1>2, <1>3, <1>4, <1>5, <1>6, <1>7 DEF Next, User

\* A saved session's key and blob belong together.
LEMMA NextSavedSessionOpens ==
  ASSUME TypeOK, Forgotten, CopiesFresh, KeyStored, SavedSessionOpens, [Next]_vars
  PROVE  SavedSessionOpens'
<1> USE UsersAssumption, IdleTypes, AccountFields, NoAccountFields, NoAccountType, RowSteps
    DEF TypeOK, IpcState, LoopState, CliState, IpcAt, LoopAt, CliAt, Goto, Answer, Fault, NoFault,
        diskVars, cliVars, boundVars, Forgotten, CopiesFresh, KeyStored, SavedSessionOpens,
        User
<1>1. ASSUME NEW u \in User, NEW c \in {"login", "password", "logout"},
             c = "login" => u \in Users, Request(c, u)
      PROVE  SavedSessionOpens'
      BY <1>1 DEF Request
<1>2. CASE UpsertAccount
      <2>1. CASE NoFault
            BY <1>2, <2>1, UsersAssumption DEF UpsertAccount
      <2>2. CASE Fault /\ Answer
            BY <1>2, <2>2, UsersAssumption DEF UpsertAccount
      <2> QED BY <1>2, <2>1, <2>2 DEF UpsertAccount
<1>3. CASE UnlockOnly
      BY <1>3 DEF UnlockOnly
<1>4. CASE DropOldSecret
      BY <1>4 DEF DropOldSecret, OtherSecretDropped, ToStore
<1>5. CASE StoreSecret
      BY <1>5 DEF StoreSecret
<1>6. CASE SaveSession
      <2>1. CASE NoFault
            BY <1>6, <2>1, UsersAssumption DEF SaveSession
      <2>2. CASE Fault /\ Answer
            BY <1>6, <2>2, UsersAssumption DEF SaveSession
      <2> QED BY <1>6, <2>1, <2>2 DEF SaveSession
<1>7. CASE DeleteSecret
      BY <1>7 DEF DeleteSecret
<1>8. CASE ClearSession
      <2>1. CASE NoFault
            BY <1>8, <2>1, UsersAssumption DEF ClearSession
      <2>2. CASE Fault /\ Answer
            BY <1>8, <2>2, UsersAssumption DEF ClearSession
      <2> QED BY <1>8, <2>1, <2>2 DEF ClearSession
<1>9. CASE ClearAccount
      <2>1. CASE NoFault
            BY <1>9, <2>1, UsersAssumption DEF ClearAccount
      <2>2. CASE Fault /\ Answer
            BY <1>9, <2>2, UsersAssumption DEF ClearAccount
      <2> QED BY <1>9, <2>1, <2>2 DEF ClearAccount
<1>10. CASE LoadSecret
      BY <1>10 DEF LoadSecret
<1>11. CASE Crash
      BY <1>11 DEF Crash
<1>12. CASE SetBaseUrl \/ ClearOldSession \/ WriteBaseUrl
      <2>1. CASE SetBaseUrl
            BY <2>1 DEF SetBaseUrl
      <2>2. CASE ClearOldSession
            BY <2>2, ForgetNothing DEF ClearOldSession
      <2>3. CASE WriteBaseUrl
            BY <2>3 DEF WriteBaseUrl
      <2> QED BY <1>12, <2>1, <2>2, <2>3
<1>13. CASE Login \/ Unlock \/ Lock \/ SignOut
      BY <1>13 DEF Login, Unlock, Lock, SignOut
<1>14. CASE NeedKey \/ InstallKey \/ TakeKey \/ Send
      BY <1>14 DEF NeedKey, InstallKey, TakeKey, Send
<1>15. CASE Boot
      BY <1>15 DEF Boot
<1>16. CASE UNCHANGED vars
      BY <1>16 DEF vars
<1> HIDE DEF SavedSessionOpens
<1> QED BY <1>1, <1>2, <1>3, <1>4, <1>5, <1>6, <1>7, <1>8, <1>9, <1>10, <1>11,
           <1>12, <1>13, <1>14, <1>15, <1>16 DEF Next, User

LEMMA NextIInv == IInv /\ [Next]_vars => IInv'
BY NextTypeOK, NextForgotten, NextCopiesFresh, NextKeyStored, NextSignedOut,
   NextOneSecret, NextLoggedOut, NextOneUser, NextKeyFitsAccount,
   NextSavedSessionOpens
   DEF IInv

-----------------------------------------------------------------------------
LEMMA Invariance == Spec => []IInv
BY InitIInv, NextIInv, PTL DEF Spec

\* Cookies, account row, keyring and the two threads keep their types: no key
\* is stored under an address the row does not have (persistSession) and no
\* key is looked up that the row does not name (restoreSession).
THEOREM TypeCorrect == Spec => []TypeOK
<1>1. IInv => TypeOK
      BY DEF IInv
<1> QED BY <1>1, Invariance, PTL

\* For any users, commands, failures and crashes: what is stored in an account
\* was encrypted under that account's key, unless a user logged in over another
\* or two of command, loop and set-base-url met (login, logout, ensureUnlocked,
\* masterKey).
THEOREM NoForeignKey == Spec => []KeyFitsAccount
<1>1. IInv => KeyFitsAccount
      BY DEF IInv
<1> QED BY <1>1, Invariance, PTL

\* A logout leaves nothing that opens the vault, but for a restore or a
\* set-base-url under way and a key whose blob was not saved, by a crash or by
\* a failing UPDATE (commands::logout, clearPersistedSession).
THEOREM LogoutIsClean == Spec => []LogoutForgets
<1>1. IInv => LogoutForgets
      BY DEF IInv, LoggedOut, LogoutForgets, NoAccount
<1> QED BY <1>1, Invariance, PTL

\* A saved session opens as long as its key exists, unless a key was stored and
\* its blob was not: the process died between the two halves of persistSession,
\* or saveVaultSession threw.
THEOREM SessionsOpen == Spec => []SavedSessionOpens
<1>1. IInv => SavedSessionOpens
      BY DEF IInv
<1> QED BY <1>1, Invariance, PTL
=============================================================================
