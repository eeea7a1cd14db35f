CONSTANTS
  c1 = c1
  c2 = c2
  Clients = {c1, c2}
  NoClient = NoClient
  Main = Main
  Unlocked = Unlocked
  MaxTexts = 2
  MaxTasks = 1
  MaxNotes = 1
SPECIFICATION Spec
INVARIANT
  ClientFound
