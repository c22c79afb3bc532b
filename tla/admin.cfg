SPECIFICATION ConfigSpec
CONSTANTS
  None = None
  h1 = h1
  h2 = h2
  Hook <- MCHook
  HookConf <- MCHookConf
  Arguments <- MCArguments
  Chat = {chat1, chat2}
  Editor = {editor}
  Prompt = {p1}
  Skill = {s1}
  Content = {A, B}
  Request = {q1, q2, q3}
  Tool = {t1}
  Provider = {m0}
  Value = {A, B}
  AutoTools = {B}
  User = {u1}
  MaxEdits = 2
  Server = {m1}
  Builtin = {b1}
  Admin = {a1, a2}
  Refresher = refresher
  Llm = {l1, l2}
  Talk = {talk}
  MaxSaves = 2
  Name <- MCName
  Lower <- MCLower
INVARIANTS
  ConfigTypes
  HookCacheFresh
  RulesHold
  VersionsSound
  FrozenStaysFrozen
  CatalogFollowsRows
  SkillsFollowFiles
CHECK_DEADLOCK FALSE
