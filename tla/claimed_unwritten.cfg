SPECIFICATION Spec
CONSTANTS
  None = None
  PrismaFile = "prisma/schema.prisma"
  Dir <- MCDir
  File <- MCFile
  Version <- MCVersion
  Rank <- MCRank
  Creates <- MCCreates
  Drops <- MCDrops
  ReadBy <- MCReadBy
  Unreadable <- MCUnreadable
  Above <- MCAbove
  Depth <- MCDepth
  BaseName <- MCBaseName
  PathRank <- MCPathRank
  Projects <- MCProjects
  RootFiles <- MCRootFiles
  HandWritten <- MCHandWritten
  Provider = "mysql"
  MaxEdits = 1
INVARIANT
  ConfiguredMeansWritten
