\* One fetch, and every answer a chain of servers may give.
SPECIFICATION FairSpec
CONSTANTS
  NoUrl = NoUrl
  NoHost = NoHost
  Urls <- MCUrls
  Parsed <- MCParsed
  Web <- MCWeb
  Hosts <- MCHosts
  Host <- MCHost
  AllowedHosts <- MCAllowedHosts
  MaxRedirects = 2
  MaxBytes = 2
  Lengths <- MCLengths
INVARIANTS
  TypeOK
  OnlyAllowedContacted
  Bounded
  WholeBody
  RefusalIsNamed
PROPERTIES
  FetchReturns
\* One fetch, and then nothing.
CHECK_DEADLOCK FALSE
