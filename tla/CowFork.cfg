SPECIFICATION CowSpec
CONSTANTS
  Env = {e0, e1, e2}
  Root = e0
  Page = {p1,p2,p3,p4,p5,p6,p7,p8,p9,p10,p11,p12,p13}
  Va = {"tmp", "text", "stack", "xstk"}
  Tab = {"lo", "hi"}
  TabOf <- TwoTables
  Image = {"text", "stack"}
  Value = {0, 1}
  Zero = 0
  Perms = {{}, {"W"}, {"COW"}, {"W", "COW"}}
  Windows = {}
  Plans <- SomePlans
  NoPage = NoPage
  NoVa = NoVa
  NoEnv = NoEnv
VIEW View
INVARIANTS OwnPages FaultsAreHandled
PROPERTIES ImplementsPrivate
