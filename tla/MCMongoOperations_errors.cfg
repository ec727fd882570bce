\* A find or aggregate that fails in the database after rows with a null.
SPECIFICATION Spec
CONSTANTS
  a = a
  b = b
  s = s
  Null = Null
  Coll = Coll
  True = True
  False = False
  Nil = Nil
  Message = Message
  Number = Number
  MinusOne = MinusOne
  Text = Text
  Raised = Raised
  Keys <- MCKeys
  Scalars <- MCScalars
  Json <- MCJson
  Rows <- NullRows
  Unparsed = {}
  Replies <- MCReplies
  ReplyJson <- MCReplyJson
  ScriptTables <- MCScriptTables
  MaxRows = 2
  MinStack = 4
  MaxTables = 3
INVARIANT ErrorsReported
CHECK_DEADLOCK FALSE
