\* Two users, up to four commands, and two failures or crashes.  When the
\* commands are used up and the vault is closed, nothing happens any more.
SPECIFICATION Spec
CONSTANTS
  Users = {1, 2}
  MaxCommands = 4
  MaxTrouble = 2
CHECK_DEADLOCK FALSE
INVARIANTS
  TypeOK KeyFitsAccount LogoutForgets SavedSessionOpens
