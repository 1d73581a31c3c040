SPECIFICATION Spec
CONSTANTS
  None = None
  Blank = Blank
  Garbled = Garbled
  i1 = i1
  i2 = i2
  Invocations <- MCInvocations
  Servers = {s1, s2}
  Tokens = {t1, t2}
  EnvTokens = {None, t2}
  MaxKills = 1
INVARIANT TypeOK ReadableWhenClosed
PROPERTY RemembersLastSuccess ChildUsesItsToken
SYMMETRY MCSymmetry
