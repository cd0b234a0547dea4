SPECIFICATION Spec
CONSTANTS
  m1 = m1
  m2 = m2
  c1 = c1
  c2 = c2
  Msgs = {m1, m2}
  Chats = {c1, c2}
  ChatOf <- TwoChats
  Twins <- OneTwin
  Age <- Ages
  Limit = 1
  Background = Background
  user = user
  Backups = {user, Background}
  MaxBackups = 3
  MaxRestores = 1
  MaxActs = 1
  MaxFaults = 1
INVARIANTS BackupIsReadable MetadataIsBacked BackedUpIsKept
CHECK_DEADLOCK FALSE
CONSTRAINT FewTroubles
