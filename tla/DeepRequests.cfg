\* Two requests of two processes for two units, one of which calls into the other
\* until it is edited, while index runs use the navigation profile; or two requests
\* of one process for symbols of one unit, while index runs switch profiles and
\* nobody edits.
CONSTANTS
  r1 = r1 r2 = r2 r3 = r3 h1 = h1 h2 = h2 s1 = s1 s2 = s2 s3 = s3 u1 = u1 u2 = u2
  None = None
  Requests = {r1, r2, r3}  Hosts = {h1, h2}  Home <- TwoHosts
  Symbols = {s1, s2, s3}  Units = {u1, u2}  Root <- TwoRoots  Calls <- CallsAtFirst
  Profiles = {"navigation", "full"}  MaxVersion = 2
SPECIFICATION MCSpec
INVARIANTS OneComputation TokensAreExact
PROPERTIES ResultIsCurrent NoCommitAfterCancel RequestsEnd
