SPECIFICATION Spec
CONSTANTS
  Env = {e0, e1}
  Root = e0
  Page = {p1, p2, p3, p4, p5, p6}
  Va = {va, vb}
  Tab = {"hi"}
  TabOf <- OneTable
  Image = {va}
  Value = {0}
  Zero = 0
  Perms = {{}, {"W"}}
  Windows = {vb}
  NoPage = NoPage
  NoVa = NoVa
  NoEnv = NoEnv
VIEW View
INVARIANTS PagesCounted
PROPERTIES NoEscalation LostWhenFull
