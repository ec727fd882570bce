\* Every operation with every shape of arguments, on rows with and without
\* nulls, a row that is too deep and one that does not parse; the tables a call returns are arguments of the next.
SPECIFICATION FairSpec
CONSTANTS
  a = a
  b = b
  s = s
  Null = Null
  Coll = Coll
  True = True
  False = False
  Nil = Nil
  Message = Message
  Number = Number
  MinusOne = MinusOne
  Text = Text
  Raised = Raised
  Keys <- MCKeys
  Scalars <- MCScalars
  Json <- MCJson
  Rows <- MCRows
  Unparsed <- MCUnparsed
  Replies <- MCReplies
  ReplyJson <- MCReplyJson
  ScriptTables <- MCScriptTables
  MaxRows = 2
  MinStack = 4
  MaxTables = 4
INVARIANTS
  IInv
  KindsKept
  DocumentsFound
  RowsDisplaced
  ArgumentsKept
  WritesReported
  LeakLedger
PROPERTY CallsReturn
CHECK_DEADLOCK FALSE
