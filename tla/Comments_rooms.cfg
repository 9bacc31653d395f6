\* Two users with one page each, who open a document and its comments and
\* leave it again; one lost connection, and up to two comments where a fetch
\* answers one.
CONSTANTS
  Docs = {d1, d2}
  Pages = {p1, p2}
  Users = {p1, p2}
  None = None
  UserOf <- OnePageEach
  MaxVisits = 2
  MaxFaults = 1
  Limit = 1
  MaxOpens = 2
  MaxPosts = 2
  MaxTouches = 2
  MaxActs = 4
SPECIFICATION Spec
SYMMETRY Interchangeable
INVARIANT TypeOK
INVARIANT OnlyClientsAreShown
INVARIANT NewcomersAreShown
INVARIANT EachShownOnce
INVARIANT OwnThreadsAgree
CHECK_DEADLOCK FALSE
