CONSTANTS
  c1 = c1
  Clients = {c1}
  NoClient = NoClient
  Main = Main
  Unlocked = Unlocked
  MaxTexts = 2
  MaxTasks = 2
  MaxNotes = 1
SPECIFICATION FairSpec
PROPERTIES
  TasksPumped
  TextsDispatched
  AnswersWritten
